---- MODULE Spec2Model ----
(***************************************************************************)
(* Enhanced PBR Packed Material Setup (PackedMaterial/Packed_Channel_      *)
(* Material.py): the panel's property group, the preset resolver, the      *)
(* socket lookup and the material builder EPM_OT_CreateMaterial.execute    *)
(* with its channel router _handle_channel_usage.                          *)
(*                                                                         *)
(* The node tree of the material under construction is a sequence of node  *)
(* records (creation order) and a set of links.  A socket is a pair        *)
(* <<node index, socket name>>.  Float properties are kept in tenths.      *)
(***************************************************************************)
EXTENDS Integers, Sequences, FiniteSets, TLC

VARIABLES
    host,          \* the running Blender: version level and the sockets its nodes have
    scene,         \* context: the objects, their selection, the active object
    props,         \* context.scene.epm_props (EPM_SceneProperties)
    mat,           \* the material built by the current/last create_material call
    imgspace,      \* bpy.data.images: colorspace_settings.name of each image
    matCount,      \* number of materials in bpy.data.materials
    pc,            \* position inside EPM_OT_CreateMaterial.execute ("idle" outside)
    loc,           \* locals of execute that live across stages
    result,        \* outcome of the last operator call
    nOps,          \* number of panel operations performed so far
    lastOp,        \* kind of the last panel operation
    lk_names,      \* get_principled_socket: argument socket_names
    lk_inputs,     \* get_principled_socket: names in bsdf.inputs
    lk_result,     \* get_principled_socket: returned socket (or None)
    data_objects,  \* bpy.data.objects: name, type and selection of each object
    data_collections,      \* bpy.data.collections: the objects of each collection
    scene_collection,      \* context.scene.collection: its objects and children
    batch_rename_settings, \* context.scene.batch_rename_settings
    report         \* what the last Batch Renamer operator returned and counted

panelVars  == <<props, nOps, lastOp>>
buildVars  == <<mat, imgspace, matCount, pc, loc, result, scene>>
lookupVars == <<lk_names, lk_inputs, lk_result>>
renamerVars == <<data_objects, data_collections, scene_collection,
                 batch_rename_settings, report>>
vars == <<host, scene, props, mat, imgspace, matCount, pc, loc, result, nOps, lastOp,
          lk_names, lk_inputs, lk_result, data_objects, data_collections,
          scene_collection, batch_rename_settings, report>>

-----------------------------------------------------------------------------
(* Bounds of the exploration *)

MaxOps == 2        \* panel operations, any of them
MaxPanelOps == 3   \* panel operations on the channel slots alone
MaxPackedOps == 3  \* panel operations on the colour and packed images and the slots
MaxRouterOps == 4  \* panel operations on the inputs of the AO and displacement routes
MaxSocketOps == 2  \* panel operations before a build on a host that lacks a socket
MaxScenarioOps == 3 \* panel operations that set a preset scenario up
MaxNormalOps == 3   \* panel operations on the inputs of the normal stage
MaxEmissionOps == 3 \* panel operations on the inputs of the emission routes
MaxApplyOps == 3    \* panel operations before a build in a scene of several objects
MaxLevelOps == 5    \* panel operations that bring every version-dependent node in
MaxCoordOps == 4    \* panel operations on the coordinate options and the images
MaxImageOps == 3    \* panel operations that put images into the five slots
MaxDisplacementOps == 4 \* panel operations on the inputs of the displacement paths
MaxOrderOps == 4    \* panel operations before a build that runs every stage
MaxDroppedOps == 3  \* panel operations before a build whose router drops a signal
MaxClearOps == 4    \* panel operations around a Clear All
MaxSortObjects == 2  \* objects in the scene that sort-by-type runs on
MaxSortOps == 2     \* settings edits and runs of sort-by-type
MaxStripObjects == 3 \* objects in bpy.data.objects when strip-suffix runs
MaxStripOps == 2    \* selection clicks and runs of strip-suffix
MaxBuilds == 1     \* create_material calls that pass poll
MaxLen == 3        \* length of a candidate list handed to the lookup
MaxObjects == 2    \* objects in the scene
MaxImages == 2     \* image datablocks in bpy.data.images

-----------------------------------------------------------------------------
(* Constants and enums *)

None == "None"
ImageIds == 1..MaxImages     \* an image slot holds 0 (no image) or an image id

Channels == <<"R", "G", "B", "A">>
ChannelNames == {"R", "G", "B", "A"}

CHANNEL_ITEMS == {"NONE", "METALLIC", "ROUGHNESS", "AO", "EMISSION", "ALPHA",
                  "SPECULAR", "DISPLACEMENT", "SUBSURFACE"}

PRESET_ITEMS == {"CUSTOM", "UNITY_HDRP", "UNITY_URP", "UNREAL", "SUBSTANCE",
                 "GLTF", "SOURCE", "GODOT"}

TEXCOORD_ITEMS == {"UV", "GENERATED", "OBJECT", "CAMERA"}

ImageSlots == {"col_image", "normal_image", "emission_image", "packed_image",
               "displacement_image"}

EPM_ChannelSettings == [channel_usage |-> "NONE", channel_invert |-> FALSE]

EPM_SceneProperties ==
    [ material_name |-> "",
      col_image |-> 0, normal_image |-> 0, emission_image |-> 0,
      packed_image |-> 0, displacement_image |-> 0,
      normal_invert_green |-> FALSE,
      normal_strength |-> 10,
      displacement_strength |-> 1,
      displacement_midlevel |-> 5,
      use_displacement |-> FALSE,
      texcoord_type |-> "UV",
      uv_map_name |-> "",
      preset |-> "CUSTOM",
      channel |-> [c \in ChannelNames |-> EPM_ChannelSettings],
      use_alpha_blend |-> FALSE,
      apply_to_all_selected |-> FALSE ]

-----------------------------------------------------------------------------
(* Version compatibility utilities *)

is_blender_3_4_plus(h) == h.v34

\* The socket_names argument: a single string or a list of strings
StrArg(name) == [isstr |-> TRUE, str |-> name, list |-> <<>>]
ListArg(names) == [isstr |-> FALSE, str |-> "", list |-> names]

get_principled_socket_last(inputs, socket_names) ==
    LET names == IF socket_names.isstr
                 THEN <<socket_names.str>> ELSE socket_names.list
        hits == {i \in 1..Len(names) : names[i] \in inputs}
    IN  IF hits = {} THEN None
        ELSE names[CHOOSE i \in hits : \A j \in hits : j <= i]

RECURSIVE first_socket(_, _, _)
first_socket(inputs, names, i) ==
    IF i > Len(names) THEN None
    ELSE IF names[i] \in inputs THEN names[i]
    ELSE first_socket(inputs, names, i + 1)

\* The socket (its name) found on the node whose inputs are named `inputs`, or None
get_principled_socket(inputs, socket_names) ==
    LET names == IF socket_names.isstr
                 THEN <<socket_names.str>> ELSE socket_names.list
    IN  first_socket(inputs, names, 1)

-----------------------------------------------------------------------------
(* Preset resolver *)

apply_preset_noreset(p) ==
    LET preset == p.preset
        use(ch, c, u) == [ch EXCEPT ![c].channel_usage = u]
        inv(ch, c) == [ch EXCEPT ![c].channel_invert = TRUE]
        ch0 == p.channel
    IN  IF preset = "CUSTOM" THEN p
        ELSE IF preset \in {"UNITY_HDRP", "UNITY_URP"}
             THEN [p EXCEPT !.channel =
                     inv(use(use(use(ch0, "R", "METALLIC"), "G", "AO"), "A", "ROUGHNESS"), "A")]
        ELSE IF preset \in {"UNREAL", "SUBSTANCE", "GLTF", "GODOT"}
             THEN [p EXCEPT !.channel =
                     use(use(use(ch0, "R", "AO"), "G", "ROUGHNESS"), "B", "METALLIC")]
        ELSE IF preset = "SOURCE"
             THEN [p EXCEPT !.channel = use(use(ch0, "G", "METALLIC"), "A", "SPECULAR")]
        ELSE p

apply_preset_noreturn(p) ==
    IF p.preset = "CUSTOM"
    THEN [p EXCEPT !.channel = [c \in ChannelNames |->
            [channel_usage |-> "NONE", channel_invert |-> FALSE]]]
    ELSE apply_preset_noreset([p EXCEPT !.channel = [c \in ChannelNames |->
            [channel_usage |-> "NONE", channel_invert |-> FALSE]]])

apply_preset(p) ==
    LET preset == p.preset
        use(ch, c, u) == [ch EXCEPT ![c].channel_usage = u]
        inv(ch, c) == [ch EXCEPT ![c].channel_invert = TRUE]
        \* Reset all channels first
        ch0 == [c \in ChannelNames |-> [channel_usage |-> "NONE", channel_invert |-> FALSE]]
    IN  IF preset = "CUSTOM" THEN p
        ELSE IF preset = "UNITY_HDRP"
             THEN [p EXCEPT !.channel =
                     inv(use(use(use(ch0, "R", "METALLIC"), "G", "AO"), "A", "ROUGHNESS"), "A")]
        ELSE IF preset = "UNITY_URP"
             THEN [p EXCEPT !.channel =
                     inv(use(use(use(ch0, "R", "METALLIC"), "G", "AO"), "A", "ROUGHNESS"), "A")]
        ELSE IF preset \in {"UNREAL", "SUBSTANCE", "GLTF", "GODOT"}
             THEN [p EXCEPT !.channel =
                     use(use(use(ch0, "R", "AO"), "G", "ROUGHNESS"), "B", "METALLIC")]
        ELSE IF preset = "SOURCE"
             THEN [p EXCEPT !.channel = use(use(ch0, "G", "METALLIC"), "A", "SPECULAR")]
        ELSE [p EXCEPT !.channel = ch0]

-----------------------------------------------------------------------------
(* Host graph API: mat.node_tree.nodes / mat.node_tree.links *)

NoSocket == <<0, "">>
NoMat == [name |-> "", nodes |-> <<>>, links |-> {}, displacement_method |-> "BUMP",
          blend_method |-> "OPAQUE", shadow_method |-> "OPAQUE"]

\* The name nodes.new gives a node of each type before making it unique
DefaultName(node_type) ==
    CASE node_type = "ShaderNodeBsdfPrincipled" -> "Principled BSDF"
      [] node_type = "ShaderNodeOutputMaterial" -> "Material Output"
      [] node_type = "ShaderNodeTexCoord"       -> "Texture Coordinate"
      [] node_type = "ShaderNodeMapping"        -> "Mapping"
      [] node_type = "ShaderNodeUVMap"          -> "UV Map"
      [] node_type = "ShaderNodeTexImage"       -> "Image Texture"
      [] node_type = "ShaderNodeNormalMap"      -> "Normal Map"
      [] node_type = "ShaderNodeInvert"         -> "Invert"
      [] node_type = "ShaderNodeDisplacement"   -> "Displacement"
      [] node_type = "ShaderNodeSeparateColor"  -> "Separate Color"
      [] node_type = "ShaderNodeSeparateRGB"    -> "Separate RGB"
      [] node_type = "ShaderNodeCombineColor"   -> "Combine Color"
      [] node_type = "ShaderNodeCombineRGB"     -> "Combine RGB"
      [] node_type = "ShaderNodeMix"            -> "Mix"
      [] node_type = "ShaderNodeMixRGB"         -> "Mix"
      [] OTHER -> node_type

\* nodes.new(type): the node is appended; its name is the type's default name,
\* suffixed .001, .002 ... (here <<name, k>>) when the name is taken
nodes_new(m, node_type) ==
    LET base == DefaultName(node_type)
        k == Cardinality({i \in 1..Len(m.nodes) : m.nodes[i].name[1] = base})
    IN  [m EXCEPT !.nodes = Append(@,
            [type |-> node_type, name |-> <<base, k>>, label |-> <<"", "">>,
             image |-> 0, attrs |-> {}, defaults |-> {}])]

NewId(m) == Len(m.nodes) + 1

\* nodes.get(name): index of the node of that name, 0 for None
nodes_get(m, name) ==
    IF \E i \in 1..Len(m.nodes) : m.nodes[i].name = <<name, 0>>
    THEN CHOOSE i \in 1..Len(m.nodes) : m.nodes[i].name = <<name, 0>>
    ELSE 0

links_new_keep(m, from, to) ==
    [m EXCEPT !.links = @ \cup {[from |-> from, to |-> to]}]

\* links.new(output, input): an input socket holds one link, the new link
\* replaces the link the input had
links_new(m, from, to) ==
    [m EXCEPT !.links = {l \in @ : l.to # to} \cup {[from |-> from, to |-> to]}]

links_remove(m, l) == [m EXCEPT !.links = @ \ {l}]

is_linked(m, sock) == \E l \in m.links : l.to = sock

\* socket.links[0] of a linked input socket
link_of(m, sock) == CHOOSE l \in m.links : l.to = sock

set_label(m, id, label) == [m EXCEPT !.nodes[id].label = label]
set_attr(m, id, attr, val) ==
    [m EXCEPT !.nodes[id].attrs = {a \in @ : a[1] # attr} \cup {<<attr, val>>}]
set_image(m, id, img) == [m EXCEPT !.nodes[id].image = img]
\* node.inputs[name].default_value = val
set_default(m, id, name, val) ==
    [m EXCEPT !.nodes[id].defaults = {d \in @ : d[1] # name} \cup {<<name, val>>}]

-----------------------------------------------------------------------------
(* Utility functions *)

create_node(m, node_type, label) ==
    LET m1 == nodes_new(m, node_type)
    IN  IF label # <<"", "">> THEN set_label(m1, NewId(m), label) ELSE m1

create_separate_color_node(h, m) ==
    IF is_blender_3_4_plus(h)
    THEN set_attr(nodes_new(m, "ShaderNodeSeparateColor"), NewId(m), "mode", "RGB")
    ELSE nodes_new(m, "ShaderNodeSeparateRGB")

create_combine_color_node(h, m) ==
    IF is_blender_3_4_plus(h)
    THEN set_attr(nodes_new(m, "ShaderNodeCombineColor"), NewId(m), "mode", "RGB")
    ELSE nodes_new(m, "ShaderNodeCombineRGB")

\* <<R, G, B>> output sockets of separator node id
get_separate_color_outputs(h, id) ==
    IF is_blender_3_4_plus(h)
    THEN << <<id, "Red">>, <<id, "Green">>, <<id, "Blue">> >>
    ELSE << <<id, "R">>, <<id, "G">>, <<id, "B">> >>

get_combine_color_inputs(h, id) ==
    IF is_blender_3_4_plus(h)
    THEN << <<id, "Red">>, <<id, "Green">>, <<id, "Blue">> >>
    ELSE << <<id, "R">>, <<id, "G">>, <<id, "B">> >>

create_mix_node(h, m, blend_type) ==
    IF is_blender_3_4_plus(h)
    THEN set_attr(set_attr(set_attr(nodes_new(m, "ShaderNodeMix"),
            NewId(m), "data_type", "RGBA"),
            NewId(m), "blend_type", blend_type),
            NewId(m), "clamp_factor", "True")
    ELSE set_attr(nodes_new(m, "ShaderNodeMixRGB"), NewId(m), "blend_type", blend_type)

get_mix_node_sockets_legacy(h, id) ==
    << <<id, "Fac">>, <<id, "Color1">>, <<id, "Color2">>, <<id, "Color">> >>

\* <<factor_input, color1_input, color2_input, result_output>>
get_mix_node_sockets(h, id) ==
    IF is_blender_3_4_plus(h)
    THEN << <<id, "Factor">>, <<id, "A">>, <<id, "B">>, <<id, "Result">> >>
    ELSE << <<id, "Fac">>, <<id, "Color1">>, <<id, "Color2">>, <<id, "Color">> >>

set_mix_node_factor(h, m, id, value) ==
    IF is_blender_3_4_plus(h)
    THEN set_default(m, id, "Factor", value)
    ELSE set_default(m, id, "Fac", value)

\* node.inputs[0] of a separator, node.outputs[0] of a combiner
first_socket_name(m, id) ==
    IF m.nodes[id].type \in {"ShaderNodeSeparateColor", "ShaderNodeCombineColor"}
    THEN "Color" ELSE "Image"

-----------------------------------------------------------------------------
(* EPM_OT_CreateMaterial *)

\* At least one texture should be loaded
poll_always(p) == TRUE

poll(p) ==
    \/ p.col_image # 0
    \/ p.normal_image # 0
    \/ p.emission_image # 0
    \/ p.packed_image # 0
    \/ p.displacement_image # 0

NoLoc == [bsdf |-> 0, output |-> 0, mapping_node |-> 0, pack_node |-> 0,
          sep_node |-> 0, ch |-> 0, final_output |-> NoSocket, applied_count |-> 0]

\* A build in progress: the material, the images' color spaces, the locals, and
\* ok = FALSE once a socket subscript has raised KeyError
Build(m, sp, l, ok) == [mat |-> m, imgspace |-> sp, loc |-> l, ok |-> ok]

\* str.capitalize() of the texcoord_type identifiers
capitalize(s) ==
    CASE s = "UV" -> "Uv"
      [] s = "GENERATED" -> "Generated"
      [] s = "OBJECT" -> "Object"
      [] s = "CAMERA" -> "Camera"

link_vector_never(m, l, id) == m

\* if vector_input := get_vector_input(): links.new(vector_input, node.inputs['Vector'])
link_vector(m, l, id) ==
    IF l.mapping_node # 0
    THEN links_new(m, <<l.mapping_node, "Vector">>, <<id, "Vector">>)
    ELSE m

set_colorspace_skipped(sp, img, space) == sp

\* node.image = img; node.image.colorspace_settings.name = space
set_colorspace(sp, img, space) == [sp EXCEPT ![img] = space]

StageSetup_unwired(h, p, sp) ==
    LET m0 == [NoMat EXCEPT !.name = "Enhanced_Packed_Material"]
        m1 == create_node(m0, "ShaderNodeBsdfPrincipled", <<"Principled BSDF", "">>)
        m2 == create_node(m1, "ShaderNodeOutputMaterial", <<"Material Output", "">>)
    IN  Build(m2, sp, [NoLoc EXCEPT !.bsdf = 1, !.output = 2], TRUE)

\* execute, lines 654-675: the new material, cleared, with BSDF and output
StageSetup(h, p, sp) ==
    LET mat_name == IF p.material_name # "" THEN p.material_name
                    ELSE "Enhanced_Packed_Material"
        m0 == [NoMat EXCEPT !.name = mat_name]
        bsdf == NewId(m0)
        m1 == create_node(m0, "ShaderNodeBsdfPrincipled", <<"Principled BSDF", "">>)
        output == NewId(m1)
        m2 == create_node(m1, "ShaderNodeOutputMaterial", <<"Material Output", "">>)
        m3 == links_new(m2, <<bsdf, "BSDF">>, <<output, "Surface">>)
    IN  Build(m3, sp, [NoLoc EXCEPT !.bsdf = bsdf, !.output = output], TRUE)

StageCoords_uv_node_in_any_mode(h, p, b) ==
    IF p.texcoord_type # "UV" \/ p.uv_map_name # ""
    THEN LET m0 == b.mat
             texcoord_node == NewId(m0)
             m1 == create_node(m0, "ShaderNodeTexCoord", <<"Texture Coordinate", "">>)
             mapping_node == NewId(m1)
             m2 == create_node(m1, "ShaderNodeMapping", <<"Mapping", "">>)
             coord_output == capitalize(p.texcoord_type)
             m3 == IF p.uv_map_name # ""
                   THEN LET uv_node == NewId(m2)
                            u1 == create_node(m2, "ShaderNodeUVMap", <<"UV Map", "">>)
                            u2 == set_attr(u1, uv_node, "uv_map", p.uv_map_name)
                        IN  links_new(u2, <<uv_node, "UV">>, <<mapping_node, "Vector">>)
                   ELSE links_new(m2, <<texcoord_node, coord_output>>,
                                  <<mapping_node, "Vector">>)
         IN  [b EXCEPT !.mat = m3, !.loc.mapping_node = mapping_node]
    ELSE b

\* execute, lines 677-693: texture coordinate and mapping nodes if needed
StageCoords(h, p, b) ==
    IF p.texcoord_type # "UV" \/ p.uv_map_name # ""
    THEN LET m0 == b.mat
             texcoord_node == NewId(m0)
             m1 == create_node(m0, "ShaderNodeTexCoord", <<"Texture Coordinate", "">>)
             mapping_node == NewId(m1)
             m2 == create_node(m1, "ShaderNodeMapping", <<"Mapping", "">>)
             coord_output == capitalize(p.texcoord_type)
             m3 == IF p.texcoord_type = "UV" /\ p.uv_map_name # ""
                   THEN LET uv_node == NewId(m2)
                            u1 == create_node(m2, "ShaderNodeUVMap", <<"UV Map", "">>)
                            u2 == set_attr(u1, uv_node, "uv_map", p.uv_map_name)
                        IN  links_new(u2, <<uv_node, "UV">>, <<mapping_node, "Vector">>)
                   ELSE links_new(m2, <<texcoord_node, coord_output>>,
                                  <<mapping_node, "Vector">>)
         IN  [b EXCEPT !.mat = m3, !.loc.mapping_node = mapping_node]
    ELSE b

StageColor_skipped(h, p, b) == b

\* execute, lines 704-717: base color map
StageColor(h, p, b) ==
    IF p.col_image # 0
    THEN LET l == b.loc
             col_node == NewId(b.mat)
             m1 == create_node(b.mat, "ShaderNodeTexImage", <<"Base Color", "">>)
             m2 == set_image(m1, col_node, p.col_image)
             sp == set_colorspace(b.imgspace, p.col_image, "sRGB")
             m3 == link_vector(m2, l, col_node)
         IN  IF "Base Color" \notin h.bsdf_inputs
             THEN Build(m3, sp, l, FALSE)     \* bsdf.inputs['Base Color']: KeyError
             ELSE LET m4 == links_new(m3, <<col_node, "Color">>, <<l.bsdf, "Base Color">>)
                      alpha_socket == get_principled_socket(h.bsdf_inputs,
                                                            ListArg(<<"Alpha">>))
                      m5 == IF alpha_socket # None
                            THEN links_new(m4, <<col_node, "Alpha">>, <<l.bsdf, alpha_socket>>)
                            ELSE m4
                  IN  Build(m5, sp, l, TRUE)
    ELSE b

invert_green_straight(h, m, normal_tex, normal_map) ==
    LET sep_node == NewId(m)
        f1 == set_label(create_separate_color_node(h, m), sep_node,
                        <<"Separate Normal", "">>)
        inv_node == NewId(f1)
        f2 == create_node(f1, "ShaderNodeInvert", <<"Invert Green", "">>)
        comb_node == NewId(f2)
        f3 == set_label(create_combine_color_node(h, f2), comb_node,
                        <<"Combine Normal", "">>)
        f4 == links_new(f3, <<normal_tex, "Color">>,
                        <<sep_node, first_socket_name(f3, sep_node)>>)
        outs == get_separate_color_outputs(h, sep_node)
        ins == get_combine_color_inputs(h, comb_node)
        f5 == links_new(f4, outs[2], <<inv_node, "Color">>)
        f6 == links_new(f5, outs[1], ins[1])
        f7 == links_new(f6, outs[2], ins[2])
        f8 == links_new(f7, outs[3], ins[3])
    IN  links_new(f8, <<comb_node, first_socket_name(f8, comb_node)>>,
                  <<normal_map, "Color">>)

\* execute, lines 736-754: flip the green channel between sampler and normal map
invert_green(h, m, normal_tex, normal_map) ==
    LET sep_node == NewId(m)
        f1 == set_label(create_separate_color_node(h, m), sep_node,
                        <<"Separate Normal", "">>)
        inv_node == NewId(f1)
        f2 == create_node(f1, "ShaderNodeInvert", <<"Invert Green", "">>)
        comb_node == NewId(f2)
        f3 == set_label(create_combine_color_node(h, f2), comb_node,
                        <<"Combine Normal", "">>)
        f4 == links_new(f3, <<normal_tex, "Color">>,
                        <<sep_node, first_socket_name(f3, sep_node)>>)
        outs == get_separate_color_outputs(h, sep_node)
        ins == get_combine_color_inputs(h, comb_node)
        f5 == links_new(f4, outs[2], <<inv_node, "Color">>)
        f6 == links_new(f5, outs[1], ins[1])
        f7 == links_new(f6, <<inv_node, "Color">>, ins[2])
        f8 == links_new(f7, outs[3], ins[3])
    IN  links_new(f8, <<comb_node, first_socket_name(f8, comb_node)>>,
                  <<normal_map, "Color">>)

\* execute, lines 722-760: normal map
StageNormal(h, p, b) ==
    IF p.normal_image # 0
    THEN LET l == b.loc
             normal_tex == NewId(b.mat)
             m1 == create_node(b.mat, "ShaderNodeTexImage", <<"Normal Map", "">>)
             m2 == set_image(m1, normal_tex, p.normal_image)
             sp == set_colorspace(b.imgspace, p.normal_image, "Non-Color")
             m3 == link_vector(m2, l, normal_tex)
             normal_map == NewId(m3)
             m4 == create_node(m3, "ShaderNodeNormalMap", <<"Normal Map Node", "">>)
             m5 == set_default(m4, normal_map, "Strength", p.normal_strength)
             m6 == IF p.normal_invert_green
                   THEN invert_green(h, m5, normal_tex, normal_map)
                   ELSE links_new(m5, <<normal_tex, "Color">>, <<normal_map, "Color">>)
             normal_socket == get_principled_socket(h.bsdf_inputs, ListArg(<<"Normal">>))
             m7 == IF normal_socket # None
                   THEN links_new(m6, <<normal_map, "Normal">>, <<l.bsdf, normal_socket>>)
                   ELSE m6
         IN  Build(m7, sp, l, TRUE)
    ELSE b

\* execute, lines 765-781: emission map
StageEmission(h, p, b) ==
    IF p.emission_image # 0
    THEN LET l == b.loc
             emiss_node == NewId(b.mat)
             m1 == create_node(b.mat, "ShaderNodeTexImage", <<"Emission Map", "">>)
             m2 == set_image(m1, emiss_node, p.emission_image)
             sp == set_colorspace(b.imgspace, p.emission_image, "sRGB")
             m3 == link_vector(m2, l, emiss_node)
             emission_socket == get_principled_socket(h.bsdf_inputs,
                                    ListArg(<<"Emission Color", "Emission">>))
             m4 == IF emission_socket # None
                   THEN links_new(m3, <<emiss_node, "Color">>, <<l.bsdf, emission_socket>>)
                   ELSE m3
             strength_socket == get_principled_socket(h.bsdf_inputs,
                                    ListArg(<<"Emission Strength">>))
             m5 == IF strength_socket # None
                   THEN set_default(m4, l.bsdf, strength_socket, 10)
                   ELSE m4
         IN  Build(m5, sp, l, TRUE)
    ELSE b

\* execute, lines 786-817: packed map sampler and separator; the loop starts at R
StagePacked(h, p, b) ==
    IF p.packed_image # 0
    THEN LET l == b.loc
             pack_node == NewId(b.mat)
             m1 == create_node(b.mat, "ShaderNodeTexImage", <<"Packed Map", "">>)
             m2 == set_image(m1, pack_node, p.packed_image)
             sp == set_colorspace(b.imgspace, p.packed_image, "Non-Color")
             m3 == link_vector(m2, l, pack_node)
             sep_node == NewId(m3)
             m4 == set_label(create_separate_color_node(h, m3), sep_node,
                             <<"Separate Packed Channels", "">>)
             m5 == links_new(m4, <<pack_node, "Color">>,
                             <<sep_node, first_socket_name(m4, sep_node)>>)
         IN  Build(m5, sp,
                   [l EXCEPT !.pack_node = pack_node, !.sep_node = sep_node, !.ch = 1],
                   TRUE)
    ELSE b

\* channel_outputs[channel_name], lines 799-807
channel_outputs(h, l, channel_name) ==
    LET outs == get_separate_color_outputs(h, l.sep_node)
    IN  CASE channel_name = "R" -> outs[1]
          [] channel_name = "G" -> outs[2]
          [] channel_name = "B" -> outs[3]
          [] channel_name = "A" -> <<l.pack_node, "Alpha">>

ChannelPrepare_invert_first(h, p, b) ==
    LET l == b.loc
        channel_name == Channels[l.ch]
        channel_output == channel_outputs(h, l, channel_name)
        settings == p.channel[channel_name]
        inv_node == NewId(b.mat)
        m1 == create_node(b.mat, "ShaderNodeInvert", <<"Invert", channel_name>>)
        m2 == links_new(m1, channel_output, <<inv_node, "Color">>)
        b1 == IF settings.channel_invert
              THEN [b EXCEPT !.mat = m2, !.loc.final_output = <<inv_node, "Color">>]
              ELSE [b EXCEPT !.loc.final_output = channel_output]
    IN  IF settings.channel_usage = "NONE"
        THEN [b1 EXCEPT !.loc.final_output = NoSocket]
        ELSE b1

ChannelPrepare_raw(h, p, b) ==
    LET l == b.loc
        channel_name == Channels[l.ch]
        channel_output == channel_outputs(h, l, channel_name)
        settings == p.channel[channel_name]
    IN  IF settings.channel_usage = "NONE"
        THEN [b EXCEPT !.loc.final_output = NoSocket]
        ELSE IF settings.channel_invert
        THEN LET inv_node == NewId(b.mat)
                 m1 == create_node(b.mat, "ShaderNodeInvert", <<"Invert", channel_name>>)
                 m2 == links_new(m1, channel_output, <<inv_node, "Color">>)
             IN  [b EXCEPT !.mat = m2, !.loc.final_output = channel_output]
        ELSE [b EXCEPT !.loc.final_output = channel_output]

\* execute, lines 819-833: one pass of the channel loop up to the router call;
\* final_output = NoSocket when the channel is skipped
ChannelPrepare(h, p, b) ==
    LET l == b.loc
        channel_name == Channels[l.ch]
        channel_output == channel_outputs(h, l, channel_name)
        settings == p.channel[channel_name]
    IN  IF settings.channel_usage = "NONE"
        THEN [b EXCEPT !.loc.final_output = NoSocket]
        ELSE IF settings.channel_invert
        THEN LET inv_node == NewId(b.mat)
                 m1 == create_node(b.mat, "ShaderNodeInvert", <<"Invert", channel_name>>)
                 m2 == links_new(m1, channel_output, <<inv_node, "Color">>)
             IN  [b EXCEPT !.mat = m2, !.loc.final_output = <<inv_node, "Color">>]
        ELSE [b EXCEPT !.loc.final_output = channel_output]

route_ao_unplugged(h, m, bsdf, channel_output, channel_name) ==
    LET base_color_socket == <<bsdf, "Base Color">>
    IN  IF "Base Color" \in h.bsdf_inputs /\ is_linked(m, base_color_socket)
        THEN LET ao_mix == NewId(m)
                 m1 == set_label(create_mix_node(h, m, "MULTIPLY"), ao_mix,
                                 <<"AO Multiply", channel_name>>)
                 socks == get_mix_node_sockets(h, ao_mix)
                 m2 == set_mix_node_factor(h, m1, ao_mix, 10)
                 existing_link == link_of(m2, base_color_socket)
                 prev_output == existing_link.from
                 m3 == links_remove(m2, existing_link)
                 m4 == links_new(m3, prev_output, socks[2])
             IN  links_new(m4, channel_output, socks[3])
        ELSE m

route_ao_swapped(h, m, bsdf, channel_output, channel_name) ==
    LET base_color_socket == <<bsdf, "Base Color">>
    IN  IF "Base Color" \in h.bsdf_inputs /\ is_linked(m, base_color_socket)
        THEN LET ao_mix == NewId(m)
                 m1 == set_label(create_mix_node(h, m, "MULTIPLY"), ao_mix,
                                 <<"AO Multiply", channel_name>>)
                 socks == get_mix_node_sockets(h, ao_mix)
                 m2 == set_mix_node_factor(h, m1, ao_mix, 10)
                 existing_link == link_of(m2, base_color_socket)
                 prev_output == existing_link.from
                 m3 == links_remove(m2, existing_link)
                 m4 == links_new(m3, prev_output, socks[3])
                 m5 == links_new(m4, channel_output, socks[2])
             IN  links_new(m5, socks[4], base_color_socket)
        ELSE m

route_ao_once(h, m, bsdf, channel_output, channel_name) ==
    LET base_color_socket == <<bsdf, "Base Color">>
    IN  IF /\ "Base Color" \in h.bsdf_inputs
           /\ is_linked(m, base_color_socket)
           /\ m.nodes[link_of(m, base_color_socket).from[1]].type
                  \notin {"ShaderNodeMix", "ShaderNodeMixRGB"}
        THEN LET ao_mix == NewId(m)
                 m1 == set_label(create_mix_node(h, m, "MULTIPLY"), ao_mix,
                                 <<"AO Multiply", channel_name>>)
                 socks == get_mix_node_sockets(h, ao_mix)
                 m2 == set_mix_node_factor(h, m1, ao_mix, 10)
                 existing_link == link_of(m2, base_color_socket)
                 prev_output == existing_link.from
                 m3 == links_remove(m2, existing_link)
                 m4 == links_new(m3, prev_output, socks[2])
                 m5 == links_new(m4, channel_output, socks[3])
             IN  links_new(m5, socks[4], base_color_socket)
        ELSE m

\* The branch, were it to wire the signal to Base Color when nothing else feeds it
route_ao_direct(h, m, bsdf, channel_output, channel_name) ==
    LET base_color_socket == <<bsdf, "Base Color">>
        ao_mix == NewId(m)
        m1 == set_label(create_mix_node(h, m, "MULTIPLY"), ao_mix,
                        <<"AO Multiply", channel_name>>)
        socks == get_mix_node_sockets(h, ao_mix)
        m2 == set_mix_node_factor(h, m1, ao_mix, 10)
        existing_link == link_of(m2, base_color_socket)
        m3 == links_remove(m2, existing_link)
        m4 == links_new(m3, existing_link.from, socks[2])
        m5 == links_new(m4, channel_output, socks[3])
    IN  CASE "Base Color" \notin h.bsdf_inputs -> m
          [] is_linked(m, base_color_socket) -> links_new(m5, socks[4], base_color_socket)
          [] OTHER -> links_new(m, channel_output, base_color_socket)

\* The 'AO' branch of _handle_channel_usage, lines 913-932
route_ao(h, m, bsdf, channel_output, channel_name) ==
    LET base_color_socket == <<bsdf, "Base Color">>
    IN  IF "Base Color" \in h.bsdf_inputs /\ is_linked(m, base_color_socket)
        THEN LET ao_mix == NewId(m)
                 m1 == set_label(create_mix_node(h, m, "MULTIPLY"), ao_mix,
                                 <<"AO Multiply", channel_name>>)
                 socks == get_mix_node_sockets(h, ao_mix)
                 m2 == set_mix_node_factor(h, m1, ao_mix, 10)
                 existing_link == link_of(m2, base_color_socket)
                 prev_output == existing_link.from
                 m3 == links_remove(m2, existing_link)
                 m4 == links_new(m3, prev_output, socks[2])
                 m5 == links_new(m4, channel_output, socks[3])
             IN  links_new(m5, socks[4], base_color_socket)
        ELSE m

route_direct_unwired(h, m, bsdf, channel_output, candidates) == m

route_direct_first_only(h, m, bsdf, channel_output, candidates) ==
    IF candidates[1] \in h.bsdf_inputs
    THEN links_new(m, channel_output, <<bsdf, candidates[1]>>)
    ELSE m

\* A branch of _handle_channel_usage that looks a socket up and wires it
route_direct(h, m, bsdf, channel_output, candidates) ==
    LET socket == get_principled_socket(h.bsdf_inputs, ListArg(candidates))
    IN  IF socket # None THEN links_new(m, channel_output, <<bsdf, socket>>) ELSE m

route_emission_unlink(h, m, bsdf, channel_output) ==
    LET strength_socket == get_principled_socket(h.bsdf_inputs,
                                                 ListArg(<<"Emission Strength">>))
    IN  IF strength_socket # None
        THEN LET m1 == links_new(m, channel_output, <<bsdf, strength_socket>>)
                 emission_socket == get_principled_socket(h.bsdf_inputs,
                                        ListArg(<<"Emission Color", "Emission">>))
             IN  IF emission_socket # None
                 THEN [set_default(m1, bsdf, emission_socket, 1) EXCEPT
                          !.links = {l \in @ : l.to # <<bsdf, emission_socket>>}]
                 ELSE m1
        ELSE m

\* The 'EMISSION' branch, lines 934-942
route_emission(h, m, bsdf, channel_output) ==
    LET strength_socket == get_principled_socket(h.bsdf_inputs,
                                                 ListArg(<<"Emission Strength">>))
    IN  IF strength_socket # None
        THEN LET m1 == links_new(m, channel_output, <<bsdf, strength_socket>>)
                 emission_socket == get_principled_socket(h.bsdf_inputs,
                                        ListArg(<<"Emission Color", "Emission">>))
             IN  IF emission_socket # None
                 THEN set_default(m1, bsdf, emission_socket, 1)
                 ELSE m1
        ELSE m

route_displacement_always_new(h, p, m, channel_output) ==
    LET disp_node == NewId(m)
        m1 == create_node(m, "ShaderNodeDisplacement", <<"Displacement", "">>)
        m2 == set_default(m1, disp_node, "Scale", p.displacement_strength)
        m3 == set_default(m2, disp_node, "Midlevel", p.displacement_midlevel)
        output == nodes_get(m3, "Material Output")
        m4 == links_new(m3, <<disp_node, "Displacement">>, <<output, "Displacement">>)
        m5 == [m4 EXCEPT !.displacement_method = "BOTH"]
    IN  <<links_new(m5, channel_output, <<disp_node, "Height">>), TRUE>>

\* The branch, were it to look at use_displacement as the displacement stage does
route_displacement_gated(h, p, m, channel_output) ==
    LET found == nodes_get(m, "Displacement")
        disp_node == NewId(m)
        m1 == create_node(m, "ShaderNodeDisplacement", <<"Displacement", "">>)
        m2 == set_default(m1, disp_node, "Scale", p.displacement_strength)
        m3 == set_default(m2, disp_node, "Midlevel", p.displacement_midlevel)
        output == nodes_get(m3, "Material Output")
        m4 == links_new(m3, <<disp_node, "Displacement">>, <<output, "Displacement">>)
        m5 == [m4 EXCEPT !.displacement_method = "BOTH"]
    IN  CASE ~p.use_displacement -> <<m, TRUE>>
          [] found # 0 -> <<links_new(m, channel_output, <<found, "Height">>), TRUE>>
          [] output = 0 -> <<links_new(m3, channel_output, <<disp_node, "Height">>), TRUE>>
          [] "Displacement" \notin h.output_inputs -> <<m3, FALSE>>
          [] OTHER -> <<links_new(m5, channel_output, <<disp_node, "Height">>), TRUE>>

\* The 'DISPLACEMENT' branch, lines 955-968; <<material, ok>>
route_displacement(h, p, m, channel_output) ==
    LET found == nodes_get(m, "Displacement")
    IN  IF found = 0
        THEN LET disp_node == NewId(m)
                 m1 == create_node(m, "ShaderNodeDisplacement", <<"Displacement", "">>)
                 m2 == set_default(m1, disp_node, "Scale", p.displacement_strength)
                 m3 == set_default(m2, disp_node, "Midlevel", p.displacement_midlevel)
                 output == nodes_get(m3, "Material Output")
             IN  IF output # 0
                 THEN IF "Displacement" \notin h.output_inputs
                      THEN <<m3, FALSE>>     \* output.inputs['Displacement']: KeyError
                      ELSE LET m4 == links_new(m3, <<disp_node, "Displacement">>,
                                               <<output, "Displacement">>)
                               m5 == [m4 EXCEPT !.displacement_method = "BOTH"]
                           IN  <<links_new(m5, channel_output, <<disp_node, "Height">>), TRUE>>
                 ELSE <<links_new(m3, channel_output, <<disp_node, "Height">>), TRUE>>
        ELSE <<links_new(m, channel_output, <<found, "Height">>), TRUE>>

\* _handle_channel_usage, lines 893-968
handle_channel_usage(h, p, b, usage, channel_output, channel_name) ==
    LET m == b.mat
        bsdf == b.loc.bsdf
    IN  CASE usage = "METALLIC" ->
               [b EXCEPT !.mat = route_direct(h, m, bsdf, channel_output, <<"Metallic">>)]
          [] usage = "ROUGHNESS" ->
               [b EXCEPT !.mat = route_direct(h, m, bsdf, channel_output, <<"Roughness">>)]
          [] usage = "SPECULAR" ->
               [b EXCEPT !.mat = route_direct(h, m, bsdf, channel_output,
                                              <<"Specular IOR Level", "Specular">>)]
          [] usage = "AO" ->
               [b EXCEPT !.mat = route_ao(h, m, bsdf, channel_output, channel_name)]
          [] usage = "EMISSION" ->
               [b EXCEPT !.mat = route_emission(h, m, bsdf, channel_output)]
          [] usage = "ALPHA" ->
               [b EXCEPT !.mat = route_direct(h, m, bsdf, channel_output, <<"Alpha">>)]
          [] usage = "SUBSURFACE" ->
               [b EXCEPT !.mat = route_direct(h, m, bsdf, channel_output,
                                              <<"Subsurface Weight", "Subsurface">>)]
          [] usage = "DISPLACEMENT" ->
               LET r == route_displacement(h, p, m, channel_output)
               IN  [b EXCEPT !.mat = r[1], !.ok = r[2]]
          [] OTHER -> b

\* execute, lines 835-839: the router call that ends one pass of the channel loop
ChannelRoute(h, p, b) ==
    LET channel_name == Channels[b.loc.ch]
    IN  handle_channel_usage(h, p, b, p.channel[channel_name].channel_usage,
                             b.loc.final_output, channel_name)

StageDisplacement_image_only(h, p, b) ==
    IF p.displacement_image # 0
    THEN LET l == b.loc
             disp_tex == NewId(b.mat)
             m1 == create_node(b.mat, "ShaderNodeTexImage", <<"Displacement Map", "">>)
             m2 == set_image(m1, disp_tex, p.displacement_image)
             sp == set_colorspace(b.imgspace, p.displacement_image, "Non-Color")
             m3 == link_vector(m2, l, disp_tex)
             disp_node == NewId(m3)
             m4 == create_node(m3, "ShaderNodeDisplacement", <<"Displacement", "">>)
             m5 == set_default(m4, disp_node, "Scale", p.displacement_strength)
             m6 == set_default(m5, disp_node, "Midlevel", p.displacement_midlevel)
             m7 == links_new(m6, <<disp_tex, "Color">>, <<disp_node, "Height">>)
             m8 == links_new(m7, <<disp_node, "Displacement">>, <<l.output, "Displacement">>)
         IN  Build([m8 EXCEPT !.displacement_method = "BOTH"], sp, l, TRUE)
    ELSE b

\* execute, lines 844-860: separate displacement map
StageDisplacement(h, p, b) ==
    IF p.use_displacement /\ p.displacement_image # 0
    THEN LET l == b.loc
             disp_tex == NewId(b.mat)
             m1 == create_node(b.mat, "ShaderNodeTexImage", <<"Displacement Map", "">>)
             m2 == set_image(m1, disp_tex, p.displacement_image)
             sp == set_colorspace(b.imgspace, p.displacement_image, "Non-Color")
             m3 == link_vector(m2, l, disp_tex)
             disp_node == NewId(m3)
             m4 == create_node(m3, "ShaderNodeDisplacement", <<"Displacement", "">>)
             m5 == set_default(m4, disp_node, "Scale", p.displacement_strength)
             m6 == set_default(m5, disp_node, "Midlevel", p.displacement_midlevel)
             m7 == links_new(m6, <<disp_tex, "Color">>, <<disp_node, "Height">>)
         IN  IF "Displacement" \notin h.output_inputs
             THEN Build(m7, sp, l, FALSE)     \* output.inputs['Displacement']: KeyError
             ELSE LET m8 == links_new(m7, <<disp_node, "Displacement">>,
                                      <<l.output, "Displacement">>)
                  IN  Build([m8 EXCEPT !.displacement_method = "BOTH"], sp, l, TRUE)
    ELSE b

\* execute, lines 865-867: material settings
StageSettings(h, p, b) ==
    IF p.use_alpha_blend
    THEN [b EXCEPT !.mat.blend_method = "BLEND", !.mat.shadow_method = "HASHED"]
    ELSE b

apply_targets_any_type(p, sc) ==
    IF p.apply_to_all_selected
    THEN {i \in 1..Len(sc.objects) : sc.objects[i].selected}
    ELSE IF sc.active # 0 THEN {sc.active} ELSE {}

\* execute, lines 872-883: the objects that get the material appended
apply_targets(p, sc) ==
    IF p.apply_to_all_selected
    THEN {i \in 1..Len(sc.objects) : sc.objects[i].selected /\ sc.objects[i].type = "MESH"}
    ELSE IF sc.active # 0 /\ sc.objects[sc.active].type = "MESH"
         THEN {sc.active} ELSE {}

\* obj.data.materials.append(mat) on every target; mid is the material's index
apply_material(p, sc, mid) ==
    [sc EXCEPT !.objects = [i \in 1..Len(sc.objects) |->
        IF i \in apply_targets(p, sc)
        THEN [sc.objects[i] EXCEPT !.materials = Append(@, mid)]
        ELSE sc.objects[i]]]

-----------------------------------------------------------------------------
(* The hosts and scenes the operators run in *)

Blender4Inputs == {"Base Color", "Metallic", "Roughness", "Alpha", "Normal",
                   "Emission Color", "Emission Strength", "Specular IOR Level",
                   "Subsurface Weight"}
Blender3Inputs == {"Base Color", "Metallic", "Roughness", "Alpha", "Normal",
                   "Emission", "Emission Strength", "Specular", "Subsurface"}
OutputInputs == {"Surface", "Displacement"}

\* Blender 4.x; 3.4-3.6 (new color nodes, old socket names); 3.0-3.3; 2.8x
Blender4  == [v34 |-> TRUE,  bsdf_inputs |-> Blender4Inputs, output_inputs |-> OutputInputs]
Blender36 == [v34 |-> TRUE,  bsdf_inputs |-> Blender3Inputs, output_inputs |-> OutputInputs]
Blender33 == [v34 |-> FALSE, bsdf_inputs |-> Blender3Inputs, output_inputs |-> OutputInputs]
Blender28 == [v34 |-> FALSE, bsdf_inputs |-> Blender3Inputs \ {"Emission Strength"},
              output_inputs |-> OutputInputs]
ReleasedHosts == {Blender4, Blender36, Blender33, Blender28}

\* A host one of whose sockets is absent
LackingHosts ==
    {[Blender4 EXCEPT !.bsdf_inputs = @ \ {s}] : s \in Blender4Inputs}
    \cup {[Blender4 EXCEPT !.output_inputs = @ \ {"Displacement"}]}

Object(type, selected) == [type |-> type, selected |-> selected, materials |-> <<>>]
OneMeshScene == [objects |-> <<Object("MESH", TRUE)>>, active |-> 1]

Scenes ==
    UNION {[objects : [1..n -> {Object(t, sel) : t \in {"MESH", "CURVE"}, sel \in BOOLEAN}],
            active : 0..n] : n \in 0..MaxObjects}

-----------------------------------------------------------------------------
(* Batch Renamer (BatchRenamer/WorkingAddon/operators.py): names, collections *)

\* A name is the sequence of its characters
Digits == <<"0", "1", "2", "3", "4", "5", "6", "7", "8", "9">>
IsDigit(ch) == \E d \in 1..10 : Digits[d] = ch

\* re.compile(r'\.\d{3}$').search(name), line 302: match.start(), -1 for no match
pattern_search(name) ==
    LET n == Len(name)
    IN  IF /\ n >= 4
           /\ name[n - 3] = "."
           /\ IsDigit(name[n - 2]) /\ IsDigit(name[n - 1]) /\ IsDigit(name[n])
        THEN n - 4
        ELSE -1

\* ".%03d" % k
number_suffix(k) ==
    <<".", Digits[((k \div 100) % 10) + 1], Digits[((k \div 10) % 10) + 1],
      Digits[(k % 10) + 1]>>

\* The name Blender gives an object whose name is set to the empty string
DefaultObjectName == <<"O", "b", "j", "e", "c", "t">>

\* obj.name = new_name (line 314) as bpy.data.objects keeps names: an empty name
\* becomes the default name, and a name held by another object gets the first
\* free numeric suffix
set_name(objs, obj, new_name) ==
    LET wanted == IF new_name = <<>> THEN DefaultObjectName ELSE new_name
        others == {objs[j].name : j \in DOMAIN objs \ {obj}}
        start == pattern_search(wanted)
        base == IF start >= 0 THEN SubSeq(wanted, 1, start) ELSE wanted
        free(k) == (base \o number_suffix(k)) \notin others
        first == CHOOSE k \in 1..(Len(objs) + 1) : free(k) /\ \A j \in 1..(k - 1) : ~free(j)
    IN  [objs EXCEPT ![obj].name = IF wanted \in others
                                   THEN base \o number_suffix(first)
                                   ELSE wanted]

\* The loop of BATCHRENAME_OT_strip_numbers.execute, lines 308-318, over the
\* selected objects still to visit; st = [objects, all_names, count, skipped]
RECURSIVE strip_loop(_, _)
strip_loop(st, selected_objects) ==
    IF selected_objects = <<>>
    THEN st
    ELSE LET obj == Head(selected_objects)
             name == st.objects[obj].name
             start == pattern_search(name)
             new_name == SubSeq(name, 1, start)
         IN  IF start >= 0
             THEN IF new_name \notin st.all_names \/ new_name = name
                  THEN strip_loop([st EXCEPT !.objects = set_name(@, obj, new_name),
                                             !.all_names = @ \cup {new_name},
                                             !.count = @ + 1],
                                  Tail(selected_objects))
                  ELSE strip_loop([st EXCEPT !.skipped = @ + 1], Tail(selected_objects))
             ELSE strip_loop(st, Tail(selected_objects))

\* BATCHRENAME_OT_strip_numbers.execute, lines 300-325
strip_numbers(objs, selected_objects) ==
    strip_loop([objects |-> objs,
                all_names |-> {objs[i].name : i \in DOMAIN objs},
                count |-> 0, skipped |-> 0], selected_objects)

\* Mapping: Blender object type -> (collection name, settings property name)
SORT_TYPE_CONFIG ==
    << <<"MESH", "Meshes", "sort_type_mesh">>,
       <<"CURVE", "Curves", "sort_type_curve">>,
       <<"SURFACE", "Surfaces", "sort_type_surface">>,
       <<"META", "Metaballs", "sort_type_meta">>,
       <<"FONT", "Text", "sort_type_font">>,
       <<"CURVES", "Hair Curves", "sort_type_curves">>,
       <<"POINTCLOUD", "Point Clouds", "sort_type_pointcloud">>,
       <<"VOLUME", "Volumes", "sort_type_volume">>,
       <<"GPENCIL", "Grease Pencil", "sort_type_gpencil">>,
       <<"ARMATURE", "Armatures", "sort_type_armature">>,
       <<"LATTICE", "Lattices", "sort_type_lattice">>,
       <<"EMPTY", "Empties", "sort_type_empty">>,
       <<"LIGHT", "Lights", "sort_type_light">>,
       <<"LIGHT_PROBE", "Light Probes", "sort_type_light_probe">>,
       <<"CAMERA", "Cameras", "sort_type_camera">>,
       <<"SPEAKER", "Speakers", "sort_type_speaker">> >>

SortProps == {SORT_TYPE_CONFIG[k][3] : k \in DOMAIN SORT_TYPE_CONFIG}

\* SORT_TYPE_CONFIG[obj_type][0]
coll_name_of(obj_type) ==
    SORT_TYPE_CONFIG[CHOOSE k \in DOMAIN SORT_TYPE_CONFIG :
                         SORT_TYPE_CONFIG[k][1] = obj_type][2]

\* BATCHRENAME_PG_settings, the fields of sort-by-type (properties.py 102-192)
BATCHRENAME_PG_settings ==
    [p \in SortProps \cup {"sort_scope"} |-> IF p = "sort_scope" THEN "SELECTED" ELSE TRUE]

\* An object of bpy.data.objects
DataObject(name, type, selected) == [name |-> name, type |-> type, selected |-> selected]

\* context.scene.objects: the members of the scene's master collection and of
\* the collections linked under it
scene_objects(colls, sc) == sc.objects \cup UNION {colls[c] : c \in sc.children}

\* A set of object indices as a list, in the order of bpy.data.objects
RECURSIVE as_list(_)
as_list(s) ==
    IF s = {}
    THEN <<>>
    ELSE LET least == CHOOSE i \in s : \A j \in s : i <= j
         IN  <<least>> \o as_list(s \ {least})

\* context.selected_objects
selected_objects(objs, colls, sc) ==
    {i \in DOMAIN objs : objs[i].selected /\ i \in scene_objects(colls, sc)}

\* poll of BATCHRENAME_OT_sort_to_collections_by_type, lines 526-531
sort_poll(st, objs, colls, sc) ==
    IF st.sort_scope = "SELECTED"
    THEN selected_objects(objs, colls, sc) # {}
    ELSE scene_objects(colls, sc) # {}

\* lines 543-546: the types whose toggle is set
enabled_types(st) ==
    {SORT_TYPE_CONFIG[k][1] : k \in {j \in DOMAIN SORT_TYPE_CONFIG :
                                         st[SORT_TYPE_CONFIG[j][3]]}}

\* lines 553-558: the dict type_groups as the list of its items, in insertion order
RECURSIVE type_groups(_, _, _, _)
type_groups(objs, source_objects, enabled, groups) ==
    IF source_objects = <<>>
    THEN groups
    ELSE LET obj == Head(source_objects)
             t == objs[obj].type
             added ==
                 IF \E k \in DOMAIN groups : groups[k].type = t
                 THEN [k \in DOMAIN groups |->
                          IF groups[k].type = t
                          THEN [groups[k] EXCEPT !.objects = Append(@, obj)]
                          ELSE groups[k]]
                 ELSE Append(groups, [type |-> t, objects |-> <<obj>>])
         IN  type_groups(objs, Tail(source_objects), enabled,
                         IF t \in enabled THEN added ELSE groups)

\* The inner loop without the unlinking of lines 575-576
RECURSIVE move_objects_link_only(_, _, _)
move_objects_link_only(w, coll_name, objects) ==
    IF objects = <<>>
    THEN w
    ELSE move_objects_link_only(
             [w EXCEPT !.collections[coll_name] = @ \cup {Head(objects)},
                       !.moved_count = @ + 1],
             coll_name, Tail(objects))

\* lines 574-578: unlink the object from every collection that holds it, link it
\* to the collection of its type; w = [collections, scene_collection, moved_count]
RECURSIVE move_objects(_, _, _)
move_objects(w, coll_name, objects) ==
    IF objects = <<>>
    THEN w
    ELSE LET obj == Head(objects)
             unlinked == [c \in DOMAIN w.collections |-> w.collections[c] \ {obj}]
         IN  move_objects(
                 [collections |-> [unlinked EXCEPT ![coll_name] = @ \cup {obj}],
                  scene_collection |-> [w.scene_collection EXCEPT !.objects = @ \ {obj}],
                  moved_count |-> w.moved_count + 1],
                 coll_name, Tail(objects))

\* lines 565-578: get or create the collection of each group, then move its objects
RECURSIVE sort_groups(_, _)
sort_groups(w, groups) ==
    IF groups = <<>>
    THEN w
    ELSE LET coll_name == coll_name_of(Head(groups).type)
             w1 == IF coll_name \in DOMAIN w.collections
                   THEN w
                   ELSE [w EXCEPT
                            !.collections =
                                [c \in DOMAIN w.collections \cup {coll_name} |->
                                    IF c = coll_name THEN {} ELSE w.collections[c]],
                            !.scene_collection.children = @ \cup {coll_name}]
         IN  sort_groups(move_objects(w1, coll_name, Head(groups).objects), Tail(groups))

\* BATCHRENAME_OT_sort_to_collections_by_type.execute, lines 533-583
sort_by_type(st, objs, colls, sc) ==
    LET source_objects ==
            IF st.sort_scope = "SELECTED"
            THEN as_list(selected_objects(objs, colls, sc))
            ELSE as_list(scene_objects(colls, sc))
        enabled == enabled_types(st)
        groups == type_groups(objs, source_objects, enabled, <<>>)
        w0 == [collections |-> colls, scene_collection |-> sc, moved_count |-> 0]
    IN  IF enabled = {}
        THEN w0 @@ [status |-> "CANCELLED"]
        ELSE IF groups = <<>>
        THEN w0 @@ [status |-> "CANCELLED"]
        ELSE sort_groups(w0, groups) @@ [status |-> "FINISHED"]

\* The renamer's data before any object exists
NoReport == [op |-> "none", status |-> "none", count |-> 0, skipped |-> 0]

InitRenamerEmpty ==
    /\ data_objects = <<>>
    /\ data_collections = [c \in {} |-> {}]
    /\ scene_collection = [objects |-> {}, children |-> {}]
    /\ batch_rename_settings = BATCHRENAME_PG_settings
    /\ report = NoReport

-----------------------------------------------------------------------------
(* State after registration *)

InitIn(hosts, scenes) ==
    /\ host \in hosts
    /\ scene \in scenes
    /\ props = EPM_SceneProperties
    /\ mat = NoMat
    /\ imgspace = [i \in ImageIds |-> "sRGB"]
    /\ matCount = 0
    /\ pc = "idle"
    /\ loc = NoLoc
    /\ result = "none"
    /\ nOps = 0
    /\ lastOp = "none"
    /\ lk_names = ListArg(<<>>)
    /\ lk_inputs = {}
    /\ lk_result = None
    /\ InitRenamerEmpty

-----------------------------------------------------------------------------
(* Panel operations: property edits and the operators behind the buttons *)

\* No operator runs while execute is running
AtRest == pc = "idle"

Edit(p, kind) ==
    /\ AtRest
    /\ props' = p
    /\ nOps' = nOps + 1
    /\ lastOp' = kind
    /\ UNCHANGED <<host, buildVars, lookupVars, renamerVars>>

\* props.<slot> = img: EPM_OT_Load*Image.execute or the image field of the panel
SetImage(slots, ids) ==
    \E s \in slots, v \in {0} \cup ids :
        /\ props[s] # v
        /\ Edit([props EXCEPT ![s] = v], "image")

SetChannelUsage(usages) ==
    \E c \in ChannelNames, u \in usages :
        /\ props.channel[c].channel_usage # u
        /\ Edit([props EXCEPT !.channel[c].channel_usage = u], "channel")

SetChannelInvert ==
    \E c \in ChannelNames :
        Edit([props EXCEPT !.channel[c].channel_invert = ~@], "channel")

\* props.preset = p, then the property's update callback
SetPreset(presets) ==
    \E p \in presets : Edit(apply_preset([props EXCEPT !.preset = p]), "preset")

SetFlag(flags) ==
    \E f \in flags : Edit([props EXCEPT ![f] = ~@], "option")

SetTexcoordType ==
    \E t \in TEXCOORD_ITEMS :
        /\ props.texcoord_type # t
        /\ Edit([props EXCEPT !.texcoord_type = t], "option")

SetUVMapName ==
    \E n \in {"", "UVMap"} :
        /\ props.uv_map_name # n
        /\ Edit([props EXCEPT !.uv_map_name = n], "option")

SetMaterialName ==
    \E n \in {"", "Mat"} :
        /\ props.material_name # n
        /\ Edit([props EXCEPT !.material_name = n], "option")

\* props.displacement_strength = v (tenths, within min 0.0 and max 10.0)
SetDisplacementStrength ==
    \E v \in {1, 20} :
        /\ props.displacement_strength # v
        /\ Edit([props EXCEPT !.displacement_strength = v], "option")

\* props.displacement_midlevel = v (tenths, within min 0.0 and max 1.0)
SetDisplacementMidlevel ==
    \E v \in {5, 0} :
        /\ props.displacement_midlevel # v
        /\ Edit([props EXCEPT !.displacement_midlevel = v], "option")

\* The operator, were it to do what its description says and no more
ClearAllImages_images_only ==
    Edit([props EXCEPT !.col_image = 0, !.normal_image = 0, !.emission_image = 0,
                       !.packed_image = 0, !.displacement_image = 0], "clear")

\* EPM_OT_ClearAllImages.execute
ClearAllImages ==
    LET p1 == [props EXCEPT !.col_image = 0, !.normal_image = 0, !.emission_image = 0,
                            !.packed_image = 0, !.displacement_image = 0,
                            !.material_name = ""]
        p2 == apply_preset([p1 EXCEPT !.preset = "CUSTOM"])
        p3 == [p2 EXCEPT !.channel = [c \in ChannelNames |->
                    [channel_usage |-> "NONE", channel_invert |-> FALSE]]]
    IN  Edit(p3, "clear")

-----------------------------------------------------------------------------
(* create_material: the call and the stages of execute *)

Step(b, next) ==
    /\ mat' = b.mat
    /\ imgspace' = b.imgspace
    /\ loc' = b.loc
    /\ pc' = IF b.ok THEN next ELSE "aborted"
    /\ result' = IF b.ok THEN result ELSE "KeyError"
    /\ UNCHANGED <<host, scene, props, matCount, nOps, lastOp, lookupVars, renamerVars>>

Here == Build(mat, imgspace, loc, TRUE)

\* bpy.ops.epm.create_material(): poll, then lines 654-675 of execute
CreateMaterial ==
    /\ AtRest
    /\ IF poll(props)
       THEN LET b == StageSetup(host, props, imgspace)
            IN  /\ matCount < MaxBuilds
                /\ mat' = b.mat
                /\ loc' = b.loc
                /\ matCount' = matCount + 1
                /\ pc' = "coords"
                /\ result' = "running"
       ELSE /\ result' = "poll_failed"
            /\ pc' = "idle"
            /\ UNCHANGED <<mat, loc, matCount>>
    /\ UNCHANGED <<host, scene, props, imgspace, nOps, lastOp, lookupVars, renamerVars>>

Coords == pc = "coords" /\ Step(StageCoords(host, props, Here), "color")
Color == pc = "color" /\ Step(StageColor(host, props, Here), "normal")
Normal == pc = "normal" /\ Step(StageNormal(host, props, Here), "emission")
Emission == pc = "emission" /\ Step(StageEmission(host, props, Here), "packed")
Packed ==
    /\ pc = "packed"
    /\ Step(StagePacked(host, props, Here),
            IF props.packed_image # 0 THEN "channel" ELSE "displacement")

\* for channel_name, channel_output in channel_outputs.items(): ... up to the router call
Channel ==
    /\ pc = "channel"
    /\ LET b == ChannelPrepare(host, props, Here)
       IN  IF b.loc.final_output = NoSocket
           THEN IF loc.ch < 4
                THEN Step([b EXCEPT !.loc.ch = @ + 1], "channel")
                ELSE Step(b, "displacement")
           ELSE Step(b, "route")

\* self._handle_channel_usage(...), then the next channel
Route ==
    /\ pc = "route"
    /\ LET b == ChannelRoute(host, props, Here)
       IN  IF loc.ch < 4 /\ b.ok
           THEN Step([b EXCEPT !.loc.ch = @ + 1], "channel")
           ELSE Step(b, "displacement")

Displacement == pc = "displacement" /\ Step(StageDisplacement(host, props, Here), "settings")
Settings == pc = "settings" /\ Step(StageSettings(host, props, Here), "apply")

\* lines 872-891: apply to objects, report, return {'FINISHED'}
Apply ==
    /\ pc = "apply"
    /\ scene' = apply_material(props, scene, matCount)
    /\ loc' = [loc EXCEPT !.applied_count = Cardinality(apply_targets(props, scene))]
    /\ pc' = "done"
    /\ result' = "FINISHED"
    /\ UNCHANGED <<host, props, mat, imgspace, matCount, nOps, lastOp, lookupVars, renamerVars>>

\* execute has returned or raised: control is back with the panel.  The material
\* stays in bpy.data.materials; the model keeps the graph of the running build only.
Return ==
    /\ pc \in {"done", "aborted"}
    /\ pc' = "idle"
    /\ mat' = NoMat
    /\ loc' = NoLoc
    /\ UNCHANGED <<host, scene, props, imgspace, matCount, result, nOps, lastOp, lookupVars, renamerVars>>

Execute ==
    \/ Coords \/ Color \/ Normal \/ Emission \/ Packed \/ Channel \/ Route
    \/ Displacement \/ Settings \/ Apply \/ Return

-----------------------------------------------------------------------------
(* Batch Renamer: the panel's operators *)

\* A step of the renamer: the material addon is left alone
RenamerOp(kind) ==
    /\ nOps' = nOps + 1
    /\ lastOp' = kind
    /\ UNCHANGED <<host, props, buildVars, lookupVars>>

\* batch_rename_settings.sort_scope = scope
SetSortScope ==
    \E scope \in {"SELECTED", "ALL"} :
        /\ batch_rename_settings.sort_scope # scope
        /\ batch_rename_settings' =
               [batch_rename_settings EXCEPT !.sort_scope = scope]
        /\ RenamerOp("sort_scope")
        /\ UNCHANGED <<data_objects, data_collections, scene_collection, report>>

\* settings.<prop_name> = not settings.<prop_name>: a type toggle of the panel
SetSortType(prop_names) ==
    \E prop_name \in prop_names :
        /\ batch_rename_settings' = [batch_rename_settings EXCEPT ![prop_name] = ~@]
        /\ RenamerOp("sort_type")
        /\ UNCHANGED <<data_objects, data_collections, scene_collection, report>>

\* BATCHRENAME_OT_sort_select_all_types.execute and
\* BATCHRENAME_OT_sort_deselect_all_types.execute
SortSetAllTypes(value) ==
    /\ batch_rename_settings' =
           [p \in DOMAIN batch_rename_settings |->
               IF p \in SortProps THEN value ELSE batch_rename_settings[p]]
    /\ batch_rename_settings' # batch_rename_settings
    /\ RenamerOp("sort_all_types")
    /\ UNCHANGED <<data_objects, data_collections, scene_collection, report>>

\* bpy.ops.batch_rename.sort_by_type(): poll, then execute
SortByType ==
    /\ IF sort_poll(batch_rename_settings, data_objects, data_collections,
                    scene_collection)
       THEN LET r == sort_by_type(batch_rename_settings, data_objects,
                                  data_collections, scene_collection)
            IN  /\ data_collections' = r.collections
                /\ scene_collection' = r.scene_collection
                /\ report' = [op |-> "sort_by_type", status |-> r.status,
                              count |-> r.moved_count, skipped |-> 0]
       ELSE /\ report' = [op |-> "sort_by_type", status |-> "poll_failed",
                          count |-> 0, skipped |-> 0]
            /\ UNCHANGED <<data_collections, scene_collection>>
    /\ RenamerOp("sort_by_type")
    /\ UNCHANGED <<data_objects, batch_rename_settings>>

\* A click in the viewport: obj.select_set(not obj.select_get())
SelectObject ==
    \E obj \in DOMAIN data_objects :
        /\ obj \in scene_objects(data_collections, scene_collection)
        /\ data_objects' = [data_objects EXCEPT ![obj].selected = ~@]
        /\ RenamerOp("select")
        /\ UNCHANGED <<data_collections, scene_collection, batch_rename_settings,
                       report>>

\* The orders in which context.selected_objects may list a set of objects
Orders(s) ==
    {q \in [1..Cardinality(s) -> s] : \A a, b \in DOMAIN q : q[a] = q[b] => a = b}

\* bpy.ops.batch_rename.strip_numbers(): poll (lines 296-298), then execute
StripNumbers ==
    /\ LET sel == selected_objects(data_objects, data_collections, scene_collection)
       IN  IF sel # {}
           THEN \E order \in Orders(sel) :
                    LET r == strip_numbers(data_objects, order)
                    IN  /\ data_objects' = r.objects
                        /\ report' = [op |-> "strip_numbers", status |-> "FINISHED",
                                      count |-> r.count, skipped |-> r.skipped]
           ELSE /\ report' = [op |-> "strip_numbers", status |-> "poll_failed",
                              count |-> 0, skipped |-> 0]
                /\ UNCHANGED data_objects
    /\ RenamerOp("strip_numbers")
    /\ UNCHANGED <<data_collections, scene_collection, batch_rename_settings>>

\* The material addon as registered, untouched by the renamer
InitMaterialIdle ==
    /\ host = Blender4
    /\ scene = OneMeshScene
    /\ props = EPM_SceneProperties
    /\ mat = NoMat
    /\ imgspace = [i \in ImageIds |-> "sRGB"]
    /\ matCount = 0
    /\ pc = "idle"
    /\ loc = NoLoc
    /\ result = "none"
    /\ nOps = 0
    /\ lastOp = "none"
    /\ lk_names = ListArg(<<>>)
    /\ lk_inputs = {}
    /\ lk_result = None

\* Scenes for sort-by-type: mesh and curve objects in the master collection, in
\* a collection "Props" of the scene, or in a collection "Meshes" that is linked
\* to the scene or not
SortObjectTypes == {"MESH", "CURVE"}
SortObjectName(i) == DefaultObjectName \o number_suffix(i)
Placements(names) ==
    {{"master"}} \cup {{c} : c \in names}
    \cup (IF "Props" \in names THEN {{"master", "Props"}} ELSE {})

InitSort ==
    /\ InitMaterialIdle
    /\ batch_rename_settings = BATCHRENAME_PG_settings
    /\ report = NoReport
    /\ \E n \in 1..MaxSortObjects, names \in {{}, {"Props"}, {"Meshes", "Props"}} :
         \E types \in [1..n -> SortObjectTypes], sel \in [1..n -> BOOLEAN],
            place \in [1..n -> Placements(names)], linked \in BOOLEAN :
             /\ data_objects = [i \in 1..n |->
                                   DataObject(SortObjectName(i), types[i], sel[i])]
             /\ data_collections = [c \in names |-> {i \in 1..n : c \in place[i]}]
             /\ scene_collection =
                    [objects |-> {i \in 1..n : "master" \in place[i]},
                     children |-> IF linked THEN names ELSE names \ {"Meshes"}]
             /\ \A i \in 1..n :
                    sel[i] => i \in scene_objects(data_collections, scene_collection)

PanelSort ==
    \/ SetSortScope
    \/ SetSortType({"sort_type_mesh", "sort_type_curve"})
    \/ SortSetAllTypes(TRUE)
    \/ SortSetAllTypes(FALSE)
    \/ SortByType

NextSort == nOps < MaxSortOps /\ PanelSort

SpecSort == InitSort /\ [][NextSort]_vars

\* Names for strip-suffix: with and without a suffix, the suffix alone, and the
\* default name
NameC == <<"C">>
StripNames ==
    {NameC, NameC \o number_suffix(1), NameC \o number_suffix(2), number_suffix(1),
     DefaultObjectName, DefaultObjectName \o number_suffix(1)}

InitStrip ==
    /\ InitMaterialIdle
    /\ batch_rename_settings = BATCHRENAME_PG_settings
    /\ report = NoReport
    /\ data_collections = [c \in {} |-> {}]
    /\ \E n \in 1..MaxStripObjects :
         \E names \in [1..n -> StripNames], sel \in [1..n -> BOOLEAN] :
             /\ \A i, j \in 1..n : names[i] = names[j] => i = j
             /\ data_objects = [i \in 1..n |-> DataObject(names[i], "MESH", sel[i])]
             /\ scene_collection = [objects |-> 1..n, children |-> {}]

NextStrip == nOps < MaxStripOps /\ (SelectObject \/ StripNumbers)

SpecStrip == InitStrip /\ [][NextStrip]_vars

-----------------------------------------------------------------------------
(* Specifications *)

AllFlags == {"normal_invert_green", "use_displacement", "use_alpha_blend",
             "apply_to_all_selected"}

Init == InitIn({Blender4}, {OneMeshScene})

Panel ==
    /\ nOps < MaxOps
    /\ \/ SetImage(ImageSlots, {1})
       \/ SetChannelUsage(CHANNEL_ITEMS)
       \/ SetChannelInvert
       \/ SetPreset(PRESET_ITEMS)
       \/ SetFlag(AllFlags)
       \/ SetTexcoordType
       \/ SetUVMapName
       \/ SetMaterialName
       \/ ClearAllImages

Next == Panel \/ CreateMaterial \/ Execute

Spec == Init /\ [][Next]_vars

\* The channel slots and the presets alone, no build
PanelChannels ==
    /\ nOps < MaxPanelOps
    /\ \/ SetChannelUsage(CHANNEL_ITEMS)
       \/ SetChannelInvert
       \/ SetPreset(PRESET_ITEMS)
       \/ ClearAllImages

SpecPanel == Init /\ [][PanelChannels]_vars

\* The packed map: colour and packed images, the four slots, then the build,
\* with the old and the new colour nodes
InitPacked == InitIn({Blender4, Blender33}, {OneMeshScene})

PanelPacked ==
    /\ nOps < MaxPackedOps
    /\ \/ SetImage({"col_image", "packed_image"}, {1})
       \/ SetChannelUsage(CHANNEL_ITEMS)
       \/ SetChannelInvert

NextPacked == PanelPacked \/ CreateMaterial \/ Execute

SpecPacked == InitPacked /\ [][NextPacked]_vars

\* The routes that build nodes (AO, displacement) beside a direct one
RouterUsages == {"NONE", "AO", "ROUGHNESS", "DISPLACEMENT"}

PanelRouter ==
    /\ nOps < MaxRouterOps
    /\ \/ SetImage({"col_image", "packed_image", "displacement_image"}, {1})
       \/ SetChannelUsage(RouterUsages)
       \/ SetChannelInvert
       \/ SetFlag({"use_displacement"})

NextRouter == PanelRouter \/ CreateMaterial \/ Execute

SpecRouter == InitPacked /\ [][NextRouter]_vars

\* Hosts whose nodes lack a socket
InitSockets == InitIn(ReleasedHosts \cup LackingHosts, {OneMeshScene})

PanelSockets ==
    /\ nOps < MaxSocketOps
    /\ \/ SetImage(ImageSlots, {1})
       \/ SetChannelUsage(CHANNEL_ITEMS)
       \/ SetFlag({"use_displacement"})

NextSockets == PanelSockets \/ CreateMaterial \/ Execute

SpecSockets == InitSockets /\ [][NextSockets]_vars

\* The documented scenarios: colour and packed images, a preset, the target flag
PanelScenario ==
    /\ nOps < MaxScenarioOps
    /\ \/ SetImage({"col_image", "packed_image"}, {1})
       \/ SetPreset({"GLTF", "UNITY_HDRP"})
       \/ SetFlag({"apply_to_all_selected"})

NextScenario == PanelScenario \/ CreateMaterial \/ Execute

SpecScenario == InitPacked /\ [][NextScenario]_vars

\* The normal map beside a packed map that has a separator and invert nodes too
PanelNormal ==
    /\ nOps < MaxNormalOps
    /\ \/ SetImage({"normal_image", "packed_image"}, {1})
       \/ SetFlag({"normal_invert_green"})
       \/ SetChannelUsage({"ROUGHNESS"})
       \/ SetChannelInvert

NextNormal == PanelNormal \/ CreateMaterial \/ Execute

SpecNormal == InitPacked /\ [][NextNormal]_vars

\* Every released host
InitReleased == InitIn(ReleasedHosts, {OneMeshScene})

\* Emission: the emission map and a packed channel that carries the strength
PanelEmission ==
    /\ nOps < MaxEmissionOps
    /\ \/ SetImage({"emission_image", "packed_image"}, {1})
       \/ SetChannelUsage({"NONE", "EMISSION"})
       \/ SetChannelInvert

NextEmission == PanelEmission \/ CreateMaterial \/ Execute

SpecEmission == InitReleased /\ [][NextEmission]_vars

\* The apply stage: any scene of a few objects, selected or not, mesh or not,
\* with or without an active object
InitApply == InitIn({Blender4}, Scenes)

PanelApply ==
    /\ nOps < MaxApplyOps
    /\ \/ SetImage({"packed_image"}, {1})
       \/ SetPreset({"GLTF"})
       \/ SetFlag({"apply_to_all_selected"})

NextApply == PanelApply \/ CreateMaterial \/ Execute

SpecApply == InitApply /\ [][NextApply]_vars

\* The version-dependent nodes: separator (packed, normal), combiner (normal),
\* mix (AO), on every released host
PanelLevels ==
    /\ nOps < MaxLevelOps
    /\ \/ SetImage({"col_image", "normal_image", "packed_image"}, {1})
       \/ SetFlag({"normal_invert_green"})
       \/ SetPreset({"GLTF", "UNITY_HDRP"})

NextLevels == PanelLevels \/ CreateMaterial \/ Execute

SpecLevels == InitReleased /\ [][NextLevels]_vars

\* The coordinate stage and the five samplers
PanelCoords ==
    /\ nOps < MaxCoordOps
    /\ \/ SetImage(ImageSlots, {1})
       \/ SetFlag({"use_displacement"})
       \/ SetPreset({"GLTF"})
       \/ SetTexcoordType
       \/ SetUVMapName

NextCoords == PanelCoords \/ CreateMaterial \/ Execute

SpecCoords == Init /\ [][NextCoords]_vars

\* The five image slots filled from several images, one image possibly in
\* more than one slot
PanelImages ==
    /\ nOps < MaxImageOps
    /\ \/ SetImage(ImageSlots, ImageIds)
       \/ SetPreset({"GLTF"})
       \/ SetFlag({"use_displacement"})

NextImages == PanelImages \/ CreateMaterial \/ Execute

SpecImages == Init /\ [][NextImages]_vars

\* The two displacement paths: packed channels tagged DISPLACEMENT and the
\* displacement map, with the strength and the midlevel edited
PanelDisplacement ==
    /\ nOps < MaxDisplacementOps
    /\ \/ SetImage({"packed_image", "displacement_image"}, {1})
       \/ SetChannelUsage({"NONE", "DISPLACEMENT"})
       \/ SetFlag({"use_displacement"})
       \/ SetDisplacementStrength
       \/ SetDisplacementMidlevel

NextDisplacement == PanelDisplacement \/ CreateMaterial \/ Execute

SpecDisplacement == Init /\ [][NextDisplacement]_vars

\* Inverted channels on hosts where a route finds its destination and where it
\* does not
InitDropped ==
    InitIn({Blender4, Blender28,
            [Blender4 EXCEPT !.bsdf_inputs = @ \ {"Roughness"}],
            [Blender4 EXCEPT !.bsdf_inputs = @ \ {"Base Color"}]}, {OneMeshScene})

PanelDropped ==
    /\ nOps < MaxDroppedOps
    /\ \/ SetImage({"col_image", "packed_image"}, {1})
       \/ SetChannelUsage({"NONE", "AO", "ROUGHNESS", "EMISSION"})
       \/ SetChannelInvert

NextDropped == PanelDropped \/ CreateMaterial \/ Execute

SpecDropped == InitDropped /\ [][NextDropped]_vars

\* Image loads, presets, channel edits and the material name around Clear All
PanelClear ==
    /\ nOps < MaxClearOps
    /\ \/ SetImage(ImageSlots, {1})
       \/ SetPreset({"GLTF", "UNITY_HDRP"})
       \/ SetChannelUsage({"NONE", "ROUGHNESS"})
       \/ SetChannelInvert
       \/ SetMaterialName
       \/ ClearAllImages

NextClear == PanelClear \/ CreateMaterial \/ Execute

SpecClear == Init /\ [][NextClear]_vars

\* Every stage of execute, on a host with and a host without the Base Color input
InitOrder == InitIn({Blender4, [Blender4 EXCEPT !.bsdf_inputs = @ \ {"Base Color"}]},
                    {OneMeshScene})

PanelOrder ==
    /\ nOps < MaxOrderOps
    /\ \/ SetImage(ImageSlots, {1})
       \/ SetPreset({"GLTF"})
       \/ SetFlag({"use_displacement", "use_alpha_blend"})

NextOrder == PanelOrder \/ CreateMaterial \/ Execute

SpecOrder == InitOrder /\ [][NextOrder]_vars

\* The socket lookup on its own: any candidate list over a few names, any set of
\* existing sockets, both node vocabularies
LookupNames == {"Specular IOR Level", "Specular", "Alpha"}

CandidateLists == UNION {[1..n -> LookupNames] : n \in 0..MaxLen}

InitLookup ==
    /\ host \in {Blender4, Blender33}
    /\ scene = OneMeshScene
    /\ props = EPM_SceneProperties
    /\ mat = NoMat
    /\ imgspace = [i \in ImageIds |-> "sRGB"]
    /\ matCount = 0
    /\ pc = "idle"
    /\ loc = NoLoc
    /\ result = "none"
    /\ nOps = 0
    /\ lastOp = "none"
    /\ lk_names \in {StrArg(n) : n \in LookupNames} \cup {ListArg(q) : q \in CandidateLists}
    /\ lk_inputs \in SUBSET LookupNames
    /\ lk_result = "unset"
    /\ InitRenamerEmpty

Lookup ==
    /\ lk_result = "unset"
    /\ lk_result' = get_principled_socket(lk_inputs, lk_names)
    /\ UNCHANGED <<host, panelVars, buildVars, lk_names, lk_inputs, renamerVars>>

SpecLookup == InitLookup /\ [][Lookup]_vars

-----------------------------------------------------------------------------
(* Properties *)

Slot(u, inv) == [channel_usage |-> u, channel_invert |-> inv]

NoImageSet ==
    /\ props.col_image = 0 /\ props.normal_image = 0 /\ props.emission_image = 0
    /\ props.packed_image = 0 /\ props.displacement_image = 0

\* C1: with none of the five image slots set, create_material is refused before
\* it starts: no material, no node and no link comes into being, whatever the
\* channel slots and the options hold.
C1_RefusedWithoutImages ==
    [][(NoImageSet /\ pc = "idle") =>
         /\ matCount' = matCount
         /\ mat' = mat
         /\ pc' = "idle"
         /\ result' # "running"]_vars

C1_Witness ==
    /\ result = "poll_failed"
    /\ NoImageSet
    /\ props.channel # EPM_SceneProperties.channel
    /\ matCount = 0
    /\ mat = NoMat

\* The preset table as the documentation gives it (slots R, G, B, A)
PresetRow(preset) ==
    CASE preset \in {"UNITY_HDRP", "UNITY_URP"} ->
            [c \in ChannelNames |->
                CASE c = "R" -> Slot("METALLIC", FALSE)
                  [] c = "G" -> Slot("AO", FALSE)
                  [] c = "B" -> Slot("NONE", FALSE)
                  [] c = "A" -> Slot("ROUGHNESS", TRUE)]
      [] preset \in {"UNREAL", "SUBSTANCE", "GLTF", "GODOT"} ->
            [c \in ChannelNames |->
                CASE c = "R" -> Slot("AO", FALSE)
                  [] c = "G" -> Slot("ROUGHNESS", FALSE)
                  [] c = "B" -> Slot("METALLIC", FALSE)
                  [] c = "A" -> Slot("NONE", FALSE)]
      [] preset = "SOURCE" ->
            [c \in ChannelNames |->
                CASE c = "R" -> Slot("NONE", FALSE)
                  [] c = "G" -> Slot("METALLIC", FALSE)
                  [] c = "B" -> Slot("NONE", FALSE)
                  [] c = "A" -> Slot("SPECULAR", FALSE)]

\* The step is a selection of a preset in the panel
PresetStep == lastOp' = "preset" /\ nOps' = nOps + 1

\* C2: selecting a preset other than Custom leaves the four slots equal to the
\* preset's row of the table, whatever they held before, and selecting the same
\* preset again right after changes nothing.
C2_PresetReplacesAllSlots ==
    [][(PresetStep /\ props'.preset # "CUSTOM") =>
         /\ props'.channel = PresetRow(props'.preset)
         /\ (lastOp = "preset" /\ props.preset = props'.preset) => props' = props]_vars

C2_Witness ==
    /\ lastOp = "preset"
    /\ nOps = MaxPanelOps
    /\ props.preset = "SOURCE"
    /\ props.channel = PresetRow("SOURCE")

\* C3: selecting the Custom preset changes none of the four slots.
C3_CustomKeepsSlots ==
    [][(PresetStep /\ props'.preset = "CUSTOM") => props'.channel = props.channel]_vars

C3_Witness ==
    /\ lastOp = "preset"
    /\ props.preset = "CUSTOM"
    /\ props.channel["R"] = Slot("AO", FALSE)
    /\ props.channel["G"] = Slot("ROUGHNESS", TRUE)
    /\ props.channel["B"] = Slot("METALLIC", FALSE)

\* The first candidate, in list order, that names an existing socket
FirstExisting(names, inputs) ==
    IF \E i \in 1..Len(names) : names[i] \in inputs
    THEN names[CHOOSE i \in 1..Len(names) :
                 /\ names[i] \in inputs
                 /\ \A j \in 1..(i - 1) : names[j] \notin inputs]
    ELSE None

\* C9: the lookup returns the first candidate that exists among the node's
\* inputs, None when none exists, whatever the host's node vocabulary; a single
\* name behaves as a one-element list.
C9_FirstMatchWins ==
    lk_result # "unset" =>
        lk_result = FirstExisting(IF lk_names.isstr THEN <<lk_names.str>> ELSE lk_names.list,
                                  lk_inputs)

C9_Witness ==
    /\ lk_names = ListArg(<<"Specular IOR Level", "Specular", "Alpha">>)
    /\ lk_inputs = {"Specular", "Alpha"}
    /\ lk_result = "Specular"

-----------------------------------------------------------------------------
(* Properties of the packed-channel loop and the router *)

Idx(c) == CHOOSE i \in 1..4 : Channels[i] = c
Usage(c) == props.channel[c].channel_usage
Inverted(c) == props.channel[c].channel_invert
Link(from, to) == [from |-> from, to |-> to]
NodesLabelled(m, label) == {i \in 1..Len(m.nodes) : m.nodes[i].label = label}
NodesOfType(m, types) == {i \in 1..Len(m.nodes) : m.nodes[i].type \in types}
LinksFrom(m, sock) == {l \in m.links : l.from = sock}
LinksTo(m, sock) == {l \in m.links : l.to = sock}

\* The raw output of channel c in the running build
Raw(c) == channel_outputs(host, loc, c)
\* The loop has passed the skip/invert part for channel c
Prepared(c) ==
    /\ loc.sep_node # 0
    /\ Idx(c) < loc.ch \/ (Idx(c) = loc.ch /\ pc # "channel")
\* The router has returned for channel c
Routed(c) ==
    /\ loc.sep_node # 0
    /\ Idx(c) < loc.ch \/ (Idx(c) = loc.ch /\ pc \notin {"channel", "route"})
BaseColor == <<loc.bsdf, "Base Color">>

\* C4: a slot whose usage is None, whatever its invert flag, gets no node of its
\* own (only the packed sampler and the separator exist for it) and no link
\* leaves its raw output.
C4_NoneChannelLeavesNoTrace ==
    [][/\ (pc = "channel" /\ Usage(Channels[loc.ch]) = "NONE") =>
            /\ mat' = mat
            /\ pc' \in {"channel", "displacement"}
       /\ \A c \in ChannelNames :
            (Usage(c) = "NONE" /\ loc'.sep_node # 0) =>
                /\ LinksFrom(mat', channel_outputs(host, loc', c)) = {}
                /\ \A i \in 1..Len(mat'.nodes) : mat'.nodes[i].label[2] # c]_vars

C4_Witness ==
    /\ pc = "done"
    /\ Usage("R") = "NONE" /\ Inverted("R")
    /\ Usage("G") = "ROUGHNESS"
    /\ loc.sep_node # 0
    /\ LinksFrom(mat, Raw("G")) # {}
    /\ LinksFrom(mat, Raw("R")) = {}

\* C5: for a slot with a usage, invert set: exactly one invert node, fed by the
\* raw output, which is wired nowhere else, and the router receives the invert
\* node's output; invert unset: no invert node, the router receives the raw output.
C5_InvertBetweenRawAndDestination ==
    \A c \in ChannelNames :
        (Prepared(c) /\ Usage(c) # "NONE") =>
            LET inv == NodesLabelled(mat, <<"Invert", c>>)
                routing == pc = "route" /\ Channels[loc.ch] = c
            IN  IF Inverted(c)
                THEN /\ Cardinality(inv) = 1
                     /\ \A i \in inv :
                          /\ mat.nodes[i].type = "ShaderNodeInvert"
                          /\ LinksFrom(mat, Raw(c)) = {Link(Raw(c), <<i, "Color">>)}
                          /\ routing => loc.final_output = <<i, "Color">>
                          /\ \A l \in LinksFrom(mat, <<i, "Color">>) :
                               mat.nodes[l.to[1]].type # "ShaderNodeInvert"
                ELSE /\ inv = {}
                     /\ routing => loc.final_output = Raw(c)
                     /\ \A l \in LinksFrom(mat, Raw(c)) :
                          mat.nodes[l.to[1]].type # "ShaderNodeInvert"

C5_Witness ==
    /\ pc = "done"
    /\ Usage("A") = "ROUGHNESS" /\ Inverted("A")
    /\ \E i \in NodesLabelled(mat, <<"Invert", "A">>) :
          /\ Link(<<loc.pack_node, "Alpha">>, <<i, "Color">>) \in mat.links
          /\ Link(<<i, "Color">>, <<loc.bsdf, "Roughness">>) \in mat.links
          /\ Link(<<loc.pack_node, "Alpha">>, <<loc.bsdf, "Roughness">>) \notin mat.links

\* Socket names of the multiply node at the host's level
MixFactor == IF host.v34 THEN "Factor" ELSE "Fac"
MixA == IF host.v34 THEN "A" ELSE "Color1"
MixB == IF host.v34 THEN "B" ELSE "Color2"
MixResult == IF host.v34 THEN "Result" ELSE "Color"
MixTypes == {"ShaderNodeMix", "ShaderNodeMixRGB"}

\* The step is the router call for a channel tagged AO
AOStep == pc = "route" /\ Usage(Channels[loc.ch]) = "AO"

\* C6: routing AO with base-color unwired creates nothing; with base-color wired
\* from S, the wire S -> base-color is replaced by one multiply node with S on
\* input A, the AO signal on input B, factor 1.0, its result the only wire into
\* base-color.
C6_AOSplicesMultiply ==
    [][AOStep =>
         IF LinksTo(mat, BaseColor) = {}
         THEN mat' = mat
         ELSE LET old == CHOOSE l \in mat.links : l.to = BaseColor
                  S == old.from
                  n == Len(mat.nodes) + 1
              IN  /\ Len(mat'.nodes) = n
                  /\ SubSeq(mat'.nodes, 1, n - 1) = mat.nodes
                  /\ mat'.nodes[n].type \in MixTypes
                  /\ <<"blend_type", "MULTIPLY">> \in mat'.nodes[n].attrs
                  /\ mat'.nodes[n].defaults = {<<MixFactor, 10>>}
                  /\ Link(S, BaseColor) \notin mat'.links
                  /\ LinksTo(mat', BaseColor) = {Link(<<n, MixResult>>, BaseColor)}
                  /\ mat'.links = (mat.links \ {old}) \cup
                        {Link(S, <<n, MixA>>), Link(loc.final_output, <<n, MixB>>),
                         Link(<<n, MixResult>>, BaseColor)}]_vars

C6_Witness ==
    /\ pc = "done"
    /\ \E n \in NodesLabelled(mat, <<"AO Multiply", "R">>),
          k \in NodesLabelled(mat, <<"Base Color", "">>) :
          /\ Link(<<k, "Color">>, <<n, MixA>>) \in mat.links
          /\ Link(Raw("R"), <<n, MixB>>) \in mat.links
          /\ LinksTo(mat, BaseColor) = {Link(<<n, MixResult>>, BaseColor)}

AOMultiplyNodes(m) ==
    {i \in NodesOfType(m, MixTypes) : <<"blend_type", "MULTIPLY">> \in m.nodes[i].attrs}

\* C7 as claimed: at most one AO multiply node exists in any built material.
C7_AtMostOneAOMultiply == Cardinality(AOMultiplyNodes(mat)) <= 1

\* C7 as amended: every channel tagged AO that is routed while base-color is
\* wired adds its own multiply node, chained on the one before it: the nodes
\* number as many as those channels, one of them feeds base-color and each other
\* one feeds input A of the next.
C7_OneMultiplyPerAOChannel ==
    loc.sep_node # 0 =>
        LET ao == AOMultiplyNodes(mat)
            routed == {c \in ChannelNames : Routed(c) /\ Usage(c) = "AO"}
        IN  /\ Cardinality(ao) =
                  IF LinksTo(mat, BaseColor) # {} THEN Cardinality(routed) ELSE 0
            /\ Cardinality(ao) <= 4
            /\ \A c \in routed : LinksTo(mat, BaseColor) # {} =>
                  Cardinality(NodesLabelled(mat, <<"AO Multiply", c>>)) = 1
            /\ ao # {} =>
                  Cardinality({n \in ao : Link(<<n, MixResult>>, BaseColor) \in mat.links}) = 1
            /\ \A n \in ao :
                  \/ Link(<<n, MixResult>>, BaseColor) \in mat.links
                  \/ \E k \in ao : k > n /\ Link(<<n, MixResult>>, <<k, MixA>>) \in mat.links

C7_Witness ==
    /\ pc = "done"
    /\ \E n \in NodesLabelled(mat, <<"AO Multiply", "R">>),
          k \in NodesLabelled(mat, <<"AO Multiply", "G">>) :
          /\ Link(<<n, MixResult>>, <<k, MixA>>) \in mat.links
          /\ Link(<<k, MixResult>>, BaseColor) \in mat.links

\* C8: at most one displacement node exists in a built material, also when a
\* packed channel is tagged DisplacementHeight and the displacement stage runs.
C8_AtMostOneDisplacementNode ==
    Cardinality(NodesOfType(mat, {"ShaderNodeDisplacement"})) <= 1

\* C10: whatever sockets the host's nodes lack, the build runs to its end: only
\* the links that need a missing socket are left out and execute never aborts.
C10_MissingSocketNeverAborts ==
    /\ pc # "aborted"
    /\ result # "KeyError"
    /\ \A l \in mat.links :
          /\ l.to[1] = loc.bsdf => l.to[2] \in host.bsdf_inputs
          /\ l.to[1] = loc.output => l.to[2] \in host.output_inputs

-----------------------------------------------------------------------------
(* Properties of whole builds *)

SepOut == get_separate_color_outputs(host, loc.sep_node)
Bsdf(name) == <<loc.bsdf, name>>

\* C11: colour and packed images, the glTF preset (R = AO, G = Roughness,
\* B = Metallic, A = None) and one mesh object as target: in the finished graph
\* the separator's green output is wired straight to Roughness and its blue
\* output straight to Metallic, one multiply node has the colour sampler's Color
\* on input A and the separator's red on input B, its result is the only wire
\* into Base Color, and the count of objects affected is 1.
C11_GltfScenario ==
    (/\ pc = "done"
     /\ props.col_image # 0 /\ props.packed_image # 0
     /\ props.channel = PresetRow("GLTF")
     /\ Cardinality(apply_targets(props, scene)) = 1) =>
        LET col == NodesLabelled(mat, <<"Base Color", "">>)
            ao == AOMultiplyNodes(mat)
        IN  /\ Cardinality(col) = 1
            /\ Cardinality(ao) = 1
            /\ NodesOfType(mat, {"ShaderNodeInvert"}) = {}
            /\ LinksTo(mat, Bsdf("Roughness")) = {Link(SepOut[2], Bsdf("Roughness"))}
            /\ LinksTo(mat, Bsdf("Metallic")) = {Link(SepOut[3], Bsdf("Metallic"))}
            /\ \A k \in col, n \in ao :
                  /\ LinksTo(mat, <<n, MixA>>) = {Link(<<k, "Color">>, <<n, MixA>>)}
                  /\ LinksTo(mat, <<n, MixB>>) = {Link(SepOut[1], <<n, MixB>>)}
                  /\ LinksTo(mat, BaseColor) = {Link(<<n, MixResult>>, BaseColor)}
            /\ loc.applied_count = 1
            /\ \A i \in apply_targets(props, scene) :
                  scene.objects[i].materials[Len(scene.objects[i].materials)] = matCount

C11_Witness ==
    /\ pc = "done"
    /\ props.preset = "GLTF"
    /\ props.col_image # 0 /\ props.packed_image # 0
    /\ props.channel = PresetRow("GLTF")
    /\ ~host.v34
    /\ Link(<<loc.sep_node, "G">>, Bsdf("Roughness")) \in mat.links
    /\ loc.applied_count = 1

\* The normal stage of the running build is over
NormalStaged == pc \in {"emission", "packed", "channel", "route", "displacement",
                        "settings", "apply", "done"}
Rgb == IF host.v34 THEN <<"Red", "Green", "Blue">> ELSE <<"R", "G", "B">>
SepTypes == {"ShaderNodeSeparateColor", "ShaderNodeSeparateRGB"}
CombTypes == {"ShaderNodeCombineColor", "ShaderNodeCombineRGB"}

\* C12: with a normal image, invert-green set: the sampler's Color feeds a
\* separator, the separator's green reaches the combiner's green only through
\* the invert node, red and blue go straight to the combiner's red and blue, and
\* the combiner's output is the only wire into the normal-map node's Color;
\* invert-green unset: no separator, invert or combiner node of the normal chain
\* exists and the sampler is wired to the normal-map node directly.
C12_NormalGreenFlip ==
    (NormalStaged /\ props.normal_image # 0) =>
        LET tex == NodesLabelled(mat, <<"Normal Map", "">>)
            nmap == NodesLabelled(mat, <<"Normal Map Node", "">>)
            sep == NodesLabelled(mat, <<"Separate Normal", "">>)
            inv == NodesLabelled(mat, <<"Invert Green", "">>)
            comb == NodesLabelled(mat, <<"Combine Normal", "">>)
        IN  /\ Cardinality(tex) = 1 /\ Cardinality(nmap) = 1
            /\ \A t \in tex, n \in nmap :
                 IF props.normal_invert_green
                 THEN /\ Cardinality(sep) = 1 /\ Cardinality(inv) = 1
                      /\ Cardinality(comb) = 1
                      /\ \A s \in sep, i \in inv, c \in comb :
                           /\ mat.nodes[s].type \in SepTypes
                           /\ mat.nodes[i].type = "ShaderNodeInvert"
                           /\ mat.nodes[c].type \in CombTypes
                           /\ LinksFrom(mat, <<t, "Color">>) =
                                 {Link(<<t, "Color">>, <<s, first_socket_name(mat, s)>>)}
                           /\ LinksFrom(mat, <<s, Rgb[2]>>) =
                                 {Link(<<s, Rgb[2]>>, <<i, "Color">>)}
                           /\ LinksTo(mat, <<c, Rgb[2]>>) =
                                 {Link(<<i, "Color">>, <<c, Rgb[2]>>)}
                           /\ LinksTo(mat, <<c, Rgb[1]>>) =
                                 {Link(<<s, Rgb[1]>>, <<c, Rgb[1]>>)}
                           /\ LinksTo(mat, <<c, Rgb[3]>>) =
                                 {Link(<<s, Rgb[3]>>, <<c, Rgb[3]>>)}
                           /\ LinksTo(mat, <<n, "Color">>) =
                                 {Link(<<c, first_socket_name(mat, c)>>, <<n, "Color">>)}
                 ELSE /\ sep = {} /\ inv = {} /\ comb = {}
                      /\ NodesOfType(mat, CombTypes) = {}
                      /\ LinksFrom(mat, <<t, "Color">>) =
                            {Link(<<t, "Color">>, <<n, "Color">>)}
                      /\ LinksTo(mat, <<n, "Color">>) =
                            {Link(<<t, "Color">>, <<n, "Color">>)}

C12_Witness ==
    /\ pc = "done"
    /\ props.normal_image # 0 /\ props.normal_invert_green
    /\ props.packed_image # 0
    /\ \E s \in NodesLabelled(mat, <<"Separate Normal", "">>),
          i \in NodesLabelled(mat, <<"Invert Green", "">>),
          c \in NodesLabelled(mat, <<"Combine Normal", "">>) :
          /\ Link(<<s, Rgb[2]>>, <<i, "Color">>) \in mat.links
          /\ Link(<<i, "Color">>, <<c, Rgb[2]>>) \in mat.links
          /\ Link(<<s, Rgb[2]>>, <<c, Rgb[2]>>) \notin mat.links

\* The shading-model input a directly wired usage goes to on this host, or None
DirectUsages == {"METALLIC", "ROUGHNESS", "ALPHA", "SPECULAR", "SUBSURFACE"}
Has(name) == name \in host.bsdf_inputs
DirectTarget(usage) ==
    CASE usage = "METALLIC" -> IF Has("Metallic") THEN "Metallic" ELSE None
      [] usage = "ROUGHNESS" -> IF Has("Roughness") THEN "Roughness" ELSE None
      [] usage = "ALPHA" -> IF Has("Alpha") THEN "Alpha" ELSE None
      [] usage = "SPECULAR" ->
            IF Has("Specular IOR Level") THEN "Specular IOR Level"
            ELSE IF Has("Specular") THEN "Specular" ELSE None
      [] usage = "SUBSURFACE" ->
            IF Has("Subsurface Weight") THEN "Subsurface Weight"
            ELSE IF Has("Subsurface") THEN "Subsurface" ELSE None

\* C13: the router wires a Metallic, Roughness or Alpha signal to the input of
\* that name when it exists, a Specular signal to "Specular IOR Level" or else
\* "Specular", a SubsurfaceWeight signal to "Subsurface Weight" or else
\* "Subsurface"; it creates no node, and no wire when no candidate input exists.
C13_DirectRoutes ==
    [][(pc = "route" /\ Usage(Channels[loc.ch]) \in DirectUsages) =>
         LET target == DirectTarget(Usage(Channels[loc.ch]))
         IN  /\ mat'.nodes = mat.nodes
             /\ IF target = None
                THEN mat'.links = mat.links
                ELSE /\ Link(loc.final_output, Bsdf(target)) \in mat'.links
                     /\ mat'.links \ mat.links \subseteq
                           {Link(loc.final_output, Bsdf(target))}
                     /\ LinksTo(mat', Bsdf(target)) =
                           {Link(loc.final_output, Bsdf(target))}]_vars

C13_Witness ==
    /\ pc = "done"
    /\ ~Has("Specular IOR Level") /\ Has("Specular")
    /\ Usage("R") = "SPECULAR"
    /\ LinksTo(mat, Bsdf("Specular")) = {Link(Raw("R"), Bsdf("Specular"))}
    /\ Cardinality(NodesOfType(mat, {"ShaderNodeTexImage"})) = 1

\* The emission colour input of this host's shading model, or None
EmissionColor ==
    IF Has("Emission Color") THEN "Emission Color"
    ELSE IF Has("Emission") THEN "Emission" ELSE None

EmissionRouted == \E c \in ChannelNames : Routed(c) /\ Usage(c) = "EMISSION"

\* C14 as claimed: once a channel tagged EmissionStrength is routed, the
\* emission-strength input is fed by a packed channel and the emission colour is
\* the constant white (unwired, default white), in every configuration.
C14_StrengthAloneControlsEmission ==
    EmissionRouted =>
        /\ LinksTo(mat, Bsdf("Emission Strength")) # {}
        /\ LinksTo(mat, Bsdf(EmissionColor)) = {}
        /\ <<EmissionColor, 1>> \in mat.nodes[loc.bsdf].defaults

\* C14 as amended: where the emission-strength input exists, the router wires
\* the signal to it and sets the default value of the emission colour input to
\* white and does nothing else: a wire into the emission colour input (from an
\* emission map) stays and keeps supplying the colour; where the
\* emission-strength input does not exist, the router changes nothing.
C14_EmissionRoute ==
    [][(pc = "route" /\ Usage(Channels[loc.ch]) = "EMISSION") =>
         IF Has("Emission Strength")
         THEN /\ LinksTo(mat', Bsdf("Emission Strength")) =
                    {Link(loc.final_output, Bsdf("Emission Strength"))}
              /\ mat'.links \ mat.links \subseteq
                    {Link(loc.final_output, Bsdf("Emission Strength"))}
              /\ \A l \in mat.links : l.to # Bsdf("Emission Strength") => l \in mat'.links
              /\ LinksTo(mat', Bsdf(EmissionColor)) = LinksTo(mat, Bsdf(EmissionColor))
              /\ Len(mat'.nodes) = Len(mat.nodes)
              /\ \A i \in 1..Len(mat.nodes) :
                    i # loc.bsdf => mat'.nodes[i] = mat.nodes[i]
              /\ EmissionColor # None =>
                    mat'.nodes[loc.bsdf].defaults =
                       {d \in mat.nodes[loc.bsdf].defaults : d[1] # EmissionColor}
                       \cup {<<EmissionColor, 1>>}
         ELSE mat' = mat]_vars

C14_Witness ==
    /\ pc = "done"
    /\ props.emission_image # 0
    /\ Usage("R") = "EMISSION"
    /\ LinksTo(mat, Bsdf("Emission Strength")) =
          {Link(Raw("R"), Bsdf("Emission Strength"))}
    /\ <<EmissionColor, 1>> \in mat.nodes[loc.bsdf].defaults
    /\ \E k \in NodesLabelled(mat, <<"Emission Map", "">>) :
          Link(<<k, "Color">>, Bsdf(EmissionColor)) \in mat.links

\* The objects the claim names as targets
IsMesh(i) == scene.objects[i].type = "MESH"
Targets ==
    IF props.apply_to_all_selected
    THEN {i \in 1..Len(scene.objects) : scene.objects[i].selected /\ IsMesh(i)}
    ELSE {i \in 1..Len(scene.objects) : i = scene.active /\ IsMesh(i)}

Legacy == [sep |-> "ShaderNodeSeparateRGB", comb |-> "ShaderNodeCombineRGB",
           mix |-> "ShaderNodeMixRGB", rgb |-> {"R", "G", "B"},
           mixin |-> {"Fac", "Color1", "Color2"}, mixout |-> "Color", fac |-> "Fac"]
Modern == [sep |-> "ShaderNodeSeparateColor", comb |-> "ShaderNodeCombineColor",
           mix |-> "ShaderNodeMix", rgb |-> {"Red", "Green", "Blue"},
           mixin |-> {"Factor", "A", "B"}, mixout |-> "Result", fac |-> "Factor"]
Level == IF host.v34 THEN Modern ELSE Legacy
TypeOf(sock) == mat.nodes[sock[1]].type

\* C16: at each capability level the separator, combiner and mix nodes created
\* are that level's kind (the modern ones set to RGB mode, the mix to RGBA data
\* type) and every wire and default value on them uses that level's socket
\* names: R,G,B and Fac,Color1,Color2,Color at the legacy level, Red,Green,Blue
\* and Factor,A,B,Result at the modern one.
C16_NodeKindAndSocketsAgree ==
    /\ \A i \in 1..Len(mat.nodes) :
         LET n == mat.nodes[i]
         IN  /\ n.type \in SepTypes =>
                   /\ n.type = Level.sep
                   /\ host.v34 => <<"mode", "RGB">> \in n.attrs
             /\ n.type \in CombTypes =>
                   /\ n.type = Level.comb
                   /\ host.v34 => <<"mode", "RGB">> \in n.attrs
             /\ n.type \in MixTypes =>
                   /\ n.type = Level.mix
                   /\ host.v34 => <<"data_type", "RGBA">> \in n.attrs
                   /\ \A d \in n.defaults : d[1] = Level.fac
    /\ \A l \in mat.links :
         /\ TypeOf(l.from) \in SepTypes => l.from[2] \in Level.rgb
         /\ TypeOf(l.to) \in CombTypes => l.to[2] \in Level.rgb
         /\ TypeOf(l.to) \in MixTypes => l.to[2] \in Level.mixin
         /\ TypeOf(l.from) \in MixTypes => l.from[2] = Level.mixout

C16_Witness ==
    /\ pc = "done"
    /\ ~host.v34
    /\ \E s \in NodesOfType(mat, {"ShaderNodeSeparateRGB"}),
          c \in NodesOfType(mat, {"ShaderNodeCombineRGB"}),
          x \in NodesOfType(mat, {"ShaderNodeMixRGB"}) :
          /\ Link(<<s, "R">>, <<c, "R">>) \in mat.links
          /\ LinksTo(mat, <<x, "Color1">>) # {}
          /\ LinksTo(mat, <<x, "Color2">>) # {}
          /\ Link(<<x, "Color">>, BaseColor) \in mat.links
          /\ <<"Fac", 10>> \in mat.nodes[x].defaults

\* C17: a build that has started has exactly one shading-model node and exactly
\* one output node, and the shading model's BSDF output is wired to the output
\* node's Surface input, from the first stage to the end of the build, whatever
\* the images and the channel slots.
C17_BsdfAndOutputWired ==
    pc # "idle" =>
        LET bsdfs == NodesOfType(mat, {"ShaderNodeBsdfPrincipled"})
            outputs == NodesOfType(mat, {"ShaderNodeOutputMaterial"})
        IN  /\ bsdfs = {loc.bsdf}
            /\ outputs = {loc.output}
            /\ LinksTo(mat, <<loc.output, "Surface">>) =
                  {Link(<<loc.bsdf, "BSDF">>, <<loc.output, "Surface">>)}

C17_Witness ==
    /\ pc = "done"
    /\ AOMultiplyNodes(mat) # {}
    /\ NodesOfType(mat, {"ShaderNodeDisplacement"}) # {}
    /\ LinksTo(mat, <<loc.output, "Displacement">>) # {}
    /\ Link(<<loc.bsdf, "BSDF">>, <<loc.output, "Surface">>) \in mat.links

-----------------------------------------------------------------------------
(* Properties of the coordinate stage and the samplers *)

\* The coordinate stage of the running build is over
CoordsStaged == pc \notin {"idle", "coords"}
Samplers == NodesOfType(mat, {"ShaderNodeTexImage"})
MappingNodes == NodesOfType(mat, {"ShaderNodeMapping"})
TexCoordNodes == NodesOfType(mat, {"ShaderNodeTexCoord"})
UVMapNodes == NodesOfType(mat, {"ShaderNodeUVMap"})
CoordsWanted == props.texcoord_type # "UV" \/ props.uv_map_name # ""

\* C18: the build has a mapping node exactly when the texcoord mode is not UV or
\* the UV-map name is non-empty; then the one mapping node's Vector output is
\* the wire on the Vector input of every sampler (colour, normal, emission,
\* packed, displacement); otherwise no sampler has a wire on its Vector input.
C18_SharedVectorFeed ==
    CoordsStaged =>
        IF CoordsWanted
        THEN /\ Cardinality(MappingNodes) = 1
             /\ \A k \in MappingNodes, i \in Samplers :
                   LinksTo(mat, <<i, "Vector">>) =
                      {Link(<<k, "Vector">>, <<i, "Vector">>)}
        ELSE /\ MappingNodes = {} /\ TexCoordNodes = {} /\ UVMapNodes = {}
             /\ \A i \in Samplers : LinksTo(mat, <<i, "Vector">>) = {}

C18_Witness ==
    /\ pc = "done"
    /\ props.texcoord_type = "OBJECT"
    /\ props.use_displacement
    /\ \E k \in MappingNodes, i \in NodesLabelled(mat, <<"Displacement Map", "">>) :
          Link(<<k, "Vector">>, <<i, "Vector">>) \in mat.links

\* C19 as claimed: with a non-empty UV-map name, in every texcoord mode, the
\* build has a UV-map node carrying the name, no generic coordinate node, and
\* the mapping node's Vector input is fed by the UV-map node.
C19_UVMapNodeReplacesCoordinateNode ==
    (CoordsStaged /\ props.uv_map_name # "") =>
        /\ Cardinality(UVMapNodes) = 1
        /\ TexCoordNodes = {}
        /\ \A u \in UVMapNodes, k \in MappingNodes :
              /\ <<"uv_map", props.uv_map_name>> \in mat.nodes[u].attrs
              /\ LinksTo(mat, <<k, "Vector">>) = {Link(<<u, "UV">>, <<k, "Vector">>)}

\* The coordinate node's output for a texcoord mode other than UV
CoordOutput ==
    CASE props.texcoord_type = "GENERATED" -> "Generated"
      [] props.texcoord_type = "OBJECT" -> "Object"
      [] props.texcoord_type = "CAMERA" -> "Camera"
      [] OTHER -> None

\* C19 as amended: whenever the coordinate stage runs the generic coordinate
\* node is created.  Only in UV mode with a non-empty name is a UV-map node
\* created: it carries the name and feeds the mapping node, and the coordinate
\* node is left unwired.  In the other modes the name is ignored: there is no
\* UV-map node and the mapping node is fed by the coordinate node's output of
\* that mode.
C19_UVMapNodeInUVModeOnly ==
    (CoordsStaged /\ CoordsWanted) =>
        /\ Cardinality(TexCoordNodes) = 1
        /\ Cardinality(MappingNodes) = 1
        /\ \A t \in TexCoordNodes, k \in MappingNodes :
              IF props.texcoord_type = "UV"
              THEN /\ Cardinality(UVMapNodes) = 1
                   /\ \A u \in UVMapNodes :
                         /\ <<"uv_map", props.uv_map_name>> \in mat.nodes[u].attrs
                         /\ LinksTo(mat, <<k, "Vector">>) =
                               {Link(<<u, "UV">>, <<k, "Vector">>)}
                   /\ \A l \in mat.links : l.from[1] # t
              ELSE /\ UVMapNodes = {}
                   /\ LinksTo(mat, <<k, "Vector">>) =
                         {Link(<<t, CoordOutput>>, <<k, "Vector">>)}

C19_Witness ==
    /\ pc = "done"
    /\ props.texcoord_type = "OBJECT"
    /\ props.uv_map_name = "UVMap"
    /\ UVMapNodes = {}
    /\ \E t \in TexCoordNodes, k \in MappingNodes :
          Link(<<t, "Object">>, <<k, "Vector">>) \in mat.links

\* The five image kinds in stage order: slot, label of the sampler, color space
Kinds == <<"col_image", "normal_image", "emission_image", "packed_image",
           "displacement_image">>
KindLabel == <<"Base Color", "Normal Map", "Emission Map", "Packed Map",
               "Displacement Map">>
KindSpace == <<"sRGB", "Non-Color", "sRGB", "Non-Color", "Non-Color">>
SamplersOf(k) == {i \in Samplers : mat.nodes[i].label = <<KindLabel[k], "">>}
Present(k) == props[Kinds[k]] # 0

\* C20 as claimed: each image kind has exactly one sampler if and only if its
\* image is present (the displacement one whatever use_displacement holds), with
\* the image assigned and the color space of its kind.
C20_OneSamplerPerPresentImage ==
    pc = "done" =>
        \A k \in 1..5 :
            /\ Cardinality(SamplersOf(k)) = IF Present(k) THEN 1 ELSE 0
            /\ \A i \in SamplersOf(k) :
                  /\ mat.nodes[i].image = props[Kinds[k]]
                  /\ imgspace[mat.nodes[i].image] = KindSpace[k]

\* The kind is sampled by the build
Sampled(k) == Present(k) /\ (k = 5 => props.use_displacement)
\* The last kind, in stage order, sampled from the same image as kind k
LastOn(k) ==
    CHOOSE j \in 1..5 :
        /\ Sampled(j) /\ props[Kinds[j]] = props[Kinds[k]]
        /\ \A n \in 1..5 : (Sampled(n) /\ props[Kinds[n]] = props[Kinds[k]]) => n <= j

\* C20 as amended: colour, normal, emission and packed have exactly one sampler
\* if and only if the image is present; displacement has one if and only if its
\* image is present and use_displacement is set.  The sampler has the image
\* assigned.  The color space is written on the image: it is the one of the
\* kind when no later stage samples the same image, else that of the last
\* stage that does.
C20_SamplersAndColorSpaces ==
    pc = "done" =>
        /\ \A k \in 1..5 :
              /\ Cardinality(SamplersOf(k)) = IF Sampled(k) THEN 1 ELSE 0
              /\ \A i \in SamplersOf(k) :
                    /\ mat.nodes[i].image = props[Kinds[k]]
                    /\ imgspace[mat.nodes[i].image] = KindSpace[LastOn(k)]
                    /\ LastOn(k) = k => imgspace[mat.nodes[i].image] = KindSpace[k]
        /\ Cardinality(Samplers) = Cardinality({k \in 1..5 : Sampled(k)})

C20_Witness ==
    /\ pc = "done"
    /\ props.col_image = 1 /\ props.packed_image = 1
    /\ props.displacement_image = 2 /\ ~props.use_displacement
    /\ Cardinality(SamplersOf(1)) = 1 /\ Cardinality(SamplersOf(4)) = 1
    /\ SamplersOf(5) = {}
    /\ imgspace[1] = "Non-Color"

-----------------------------------------------------------------------------
(* Properties of the displacement paths *)

DispNodes(m) == NodesOfType(m, {"ShaderNodeDisplacement"})
OutDisp == <<loc.output, "Displacement">>
DispStep == pc = "route" /\ Usage(Channels[loc.ch]) = "DISPLACEMENT"

\* C21: the first DisplacementHeight channel of a build creates the displacement
\* node with the model's scale and midlevel, wires it to the output node's
\* Displacement input and sets the displacement mode; every later one creates no
\* node and no output wire and only wires its signal into the Height input of
\* that node.
C21_DisplacementRouteIdempotent ==
    [][DispStep =>
         IF DispNodes(mat) = {}
         THEN LET d == Len(mat.nodes) + 1
              IN  /\ Len(mat'.nodes) = d
                  /\ SubSeq(mat'.nodes, 1, d - 1) = mat.nodes
                  /\ mat'.nodes[d].type = "ShaderNodeDisplacement"
                  /\ mat'.nodes[d].defaults =
                        {<<"Scale", props.displacement_strength>>,
                         <<"Midlevel", props.displacement_midlevel>>}
                  /\ mat'.links = mat.links \cup
                        {Link(<<d, "Displacement">>, OutDisp),
                         Link(loc.final_output, <<d, "Height">>)}
                  /\ mat'.displacement_method = "BOTH"
         ELSE /\ mat'.nodes = mat.nodes
              /\ Cardinality(DispNodes(mat)) = 1
              /\ \A d \in DispNodes(mat) :
                    /\ LinksTo(mat', <<d, "Height">>) =
                          {Link(loc.final_output, <<d, "Height">>)}
                    /\ {l \in mat'.links : l.to # <<d, "Height">>} =
                          {l \in mat.links : l.to # <<d, "Height">>}
                    /\ LinksTo(mat', OutDisp) = {Link(<<d, "Displacement">>, OutDisp)}
              /\ mat'.displacement_method = mat.displacement_method]_vars

C21_Witness ==
    /\ pc = "displacement"
    /\ Usage("R") = "DISPLACEMENT" /\ Usage("G") = "DISPLACEMENT"
    /\ props.displacement_strength = 20
    /\ Cardinality(DispNodes(mat)) = 1
    /\ \A d \in DispNodes(mat) :
          /\ <<"Scale", 20>> \in mat.nodes[d].defaults
          /\ LinksTo(mat, <<d, "Height">>) = {Link(Raw("G"), <<d, "Height">>)}
          /\ LinksTo(mat, OutDisp) = {Link(<<d, "Displacement">>, OutDisp)}
    /\ mat.displacement_method = "BOTH"

\* C22: the displacement stage runs if and only if use_displacement is set and
\* a displacement image is present.  When it runs, the displacement sampler's
\* Color is wired to the Height input of the displacement node, whose Scale and
\* Midlevel are the model's strength and midlevel and whose output is the wire
\* on the output node's Displacement input, and the displacement mode is BOTH.
\* When it does not run and no channel is tagged DisplacementHeight, the output
\* node's Displacement input has no wire.
C22_DisplacementStage ==
    [][pc = "displacement" =>
         IF props.use_displacement /\ props.displacement_image # 0
         THEN LET t == Len(mat.nodes) + 1
                  d == Len(mat.nodes) + 2
              IN  /\ Len(mat'.nodes) = d
                  /\ SubSeq(mat'.nodes, 1, d - 2) = mat.nodes
                  /\ mat'.nodes[t].type = "ShaderNodeTexImage"
                  /\ mat'.nodes[t].image = props.displacement_image
                  /\ mat'.nodes[d].type = "ShaderNodeDisplacement"
                  /\ LinksTo(mat', <<d, "Height">>) =
                        {Link(<<t, "Color">>, <<d, "Height">>)}
                  /\ mat'.nodes[d].defaults =
                        {<<"Scale", props.displacement_strength>>,
                         <<"Midlevel", props.displacement_midlevel>>}
                  /\ LinksTo(mat', OutDisp) = {Link(<<d, "Displacement">>, OutDisp)}
                  /\ mat'.displacement_method = "BOTH"
         ELSE /\ mat' = mat
              /\ (\A c \in ChannelNames : Usage(c) # "DISPLACEMENT") =>
                    /\ LinksTo(mat', OutDisp) = {}
                    /\ DispNodes(mat') = {}]_vars

C22_Witness ==
    /\ pc = "done"
    /\ props.use_displacement /\ props.displacement_image # 0
    /\ props.displacement_strength = 20 /\ props.displacement_midlevel = 0
    /\ \E t \in NodesLabelled(mat, <<"Displacement Map", "">>), d \in DispNodes(mat) :
          /\ Link(<<t, "Color">>, <<d, "Height">>) \in mat.links
          /\ mat.nodes[d].defaults = {<<"Scale", 20>>, <<"Midlevel", 0>>}
          /\ LinksTo(mat, OutDisp) = {Link(<<d, "Displacement">>, OutDisp)}
    /\ mat.displacement_method = "BOTH"

-----------------------------------------------------------------------------
(* Properties of the order of the stages *)

\* The stage whose code creates the node of a label
StageOfLabel(label) ==
    CASE label = "Principled BSDF" -> "idle"
      [] label = "Material Output" -> "idle"
      [] label \in {"Texture Coordinate", "Mapping", "UV Map"} -> "coords"
      [] label = "Base Color" -> "color"
      [] label \in {"Normal Map", "Normal Map Node", "Separate Normal", "Invert Green",
                    "Combine Normal"} -> "normal"
      [] label = "Emission Map" -> "emission"
      [] label \in {"Packed Map", "Separate Packed Channels"} -> "packed"
      [] label = "Invert" -> "channel"
      [] label = "AO Multiply" -> "route"
      [] label = "Displacement Map" -> "displacement"
      [] label = "Displacement" -> IF pc = "route" THEN "route" ELSE "displacement"
      [] OTHER -> "none"

\* The positions that may follow a position of a build that does not raise
Follows(at) ==
    CASE at = "coords" -> {"color"}
      [] at = "color" -> {"normal"}
      [] at = "normal" -> {"emission"}
      [] at = "emission" -> {"packed"}
      [] at = "packed" -> {"channel", "displacement"}
      [] at = "channel" -> {"channel", "route", "displacement"}
      [] at = "route" -> {"channel", "displacement"}
      [] at = "displacement" -> {"settings"}
      [] at = "settings" -> {"apply"}
      [] at = "apply" -> {"done"}
      [] OTHER -> {"idle", "coords"}

\* C23: the stages run in the order colour, normal, emission, packed channels
\* R, G, B, A, displacement, material flags, application, each node being
\* created in its stage; so with a colour image present and the Base Color input
\* existing, Base Color is wired whenever an AO channel is routed and the AO
\* channel is spliced; an AO channel is dropped only without a colour image.
C23_StageOrder ==
    [][/\ pc' \in Follows(pc) \cup {"aborted"}
       /\ pc' = "aborted" => pc \in {"color", "route", "displacement"}
       /\ (pc \in {"channel", "route"} /\ pc' = "channel") => loc'.ch = loc.ch + 1
       /\ (pc = "packed" /\ pc' = "channel") => loc'.ch = 1
       /\ (pc \in {"channel", "route"} /\ pc' = "displacement") => loc.ch = 4
       /\ pc' \notin {"idle"} =>
             \A i \in (Len(mat.nodes) + 1)..Len(mat'.nodes) :
                 StageOfLabel(mat'.nodes[i].label[1]) = pc
       /\ AOStep =>
             IF props.col_image # 0
             THEN /\ Has("Base Color")
                  /\ LinksTo(mat, BaseColor) # {}
                  /\ Len(mat'.nodes) = Len(mat.nodes) + 1
                  /\ \E n \in AOMultiplyNodes(mat') :
                        LinksTo(mat', BaseColor) = {Link(<<n, MixResult>>, BaseColor)}
             ELSE mat' = mat]_vars

C23_Witness ==
    /\ pc = "done"
    /\ props.col_image # 0 /\ props.emission_image # 0 /\ props.packed_image # 0
    /\ Usage("R") = "AO"
    /\ \E c \in NodesLabelled(mat, <<"Base Color", "">>),
          e \in NodesLabelled(mat, <<"Emission Map", "">>),
          k \in NodesLabelled(mat, <<"Packed Map", "">>),
          n \in NodesLabelled(mat, <<"AO Multiply", "R">>) :
          /\ c < e /\ e < k /\ k < n
          /\ Link(<<n, MixResult>>, BaseColor) \in mat.links

-----------------------------------------------------------------------------
(* Properties of the graph as a whole *)

\* A step of a running build (the return to the panel excluded)
Building == pc \notin {"idle", "done", "aborted"}
Grows(old, new) ==
    /\ Len(new) >= Len(old)
    /\ SubSeq(new, 1, Len(old)) = old
\* The nodes of the graph stay what they are but for values set on them
NodesKept ==
    /\ Len(mat'.nodes) >= Len(mat.nodes)
    /\ \A i \in 1..Len(mat.nodes) :
          /\ mat'.nodes[i].type = mat.nodes[i].type
          /\ mat'.nodes[i].name = mat.nodes[i].name
          /\ mat'.nodes[i].label = mat.nodes[i].label

\* C24 as claimed: during a build no node and no wire is destroyed: the nodes
\* and the wires of the graph only grow.
C24_NothingDestroyed ==
    [][Building => (NodesKept /\ mat.links \subseteq mat'.links)]_vars

\* C24 as amended: during a build no node is destroyed, but wires are: a wire is
\* removed exactly when the same step puts another wire on the input it fed
\* (the AO splice on Base Color, a second source for an input already wired),
\* and that happens in the router and in the displacement stage only.
C24_WiresReplacedNotKept ==
    [][Building =>
         /\ NodesKept
         /\ \A l \in mat.links \ mat'.links :
               /\ pc \in {"route", "displacement"}
               /\ \E n \in mat'.links \ mat.links : n.to = l.to /\ n.from # l.from
               /\ Cardinality(LinksTo(mat', l.to)) = 1]_vars

C24_Witness ==
    /\ pc = "done"
    /\ AOMultiplyNodes(mat) # {}
    /\ \E k \in NodesLabelled(mat, <<"Base Color", "">>) :
          /\ Link(<<k, "Color">>, BaseColor) \notin mat.links
          /\ LinksTo(mat, BaseColor) # {}

\* The signal of channel c that is handed to the router
Final(c) ==
    IF Inverted(c)
    THEN <<CHOOSE i \in 1..Len(mat.nodes) : mat.nodes[i].label = <<"Invert", c>>, "Color">>
    ELSE Raw(c)
WiresToBsdf(sock) == {l \in LinksFrom(mat, sock) : l.to[1] = loc.bsdf}
\* The channels tagged with a usage, and the last of them in the order R, G, B, A
Tagged(u) == {c \in ChannelNames : Usage(c) = u}
LastTagged(u) == CHOOSE c \in Tagged(u) : \A o \in Tagged(u) : Idx(o) <= Idx(c)

\* C25: each input of the shading-model node has at most one incoming wire;
\* when several sources target one input (channels with the same direct usage,
\* the colour image's alpha and a channel tagged Alpha) the wire at the end of
\* the build is the one of the source processed last in the order colour stage,
\* R, G, B, A, and the earlier sources have no wire to the shading model.
C25_LastSourceWins ==
    /\ \A l \in mat.links :
          l.to[1] = loc.bsdf /\ pc # "idle" => LinksTo(mat, l.to) = {l}
    /\ (pc = "done" /\ props.packed_image # 0) =>
          \A u \in DirectUsages :
              (Tagged(u) # {} /\ DirectTarget(u) # None) =>
                  /\ LinksTo(mat, Bsdf(DirectTarget(u))) =
                        {Link(Final(LastTagged(u)), Bsdf(DirectTarget(u)))}
                  /\ \A c \in Tagged(u) \ {LastTagged(u)} : WiresToBsdf(Final(c)) = {}
                  /\ u = "ALPHA" =>
                        \A k \in NodesLabelled(mat, <<"Base Color", "">>) :
                            WiresToBsdf(<<k, "Alpha">>) = {}

C25_Witness ==
    /\ pc = "done"
    /\ Usage("R") = "ROUGHNESS" /\ Usage("G") = "ROUGHNESS"
    /\ LinksTo(mat, Bsdf("Roughness")) = {Link(Raw("G"), Bsdf("Roughness"))}
    /\ LinksFrom(mat, Raw("R")) = {}

DispSamplers == NodesLabelled(mat, <<"Displacement Map", "">>)

\* C26: a packed channel tagged DisplacementHeight builds the displacement node,
\* wires it to the output node's Displacement input and sets the displacement
\* mode whether or not use_displacement is set; the flag decides only whether
\* the stage of the displacement image runs.
C26_RouteIgnoresUseDisplacement ==
    (pc = "done" /\ props.packed_image # 0) =>
        /\ (Tagged("DISPLACEMENT") # {} /\ ~props.use_displacement) =>
              /\ Cardinality(DispNodes(mat)) = 1
              /\ \A d \in DispNodes(mat) :
                    /\ LinksTo(mat, OutDisp) = {Link(<<d, "Displacement">>, OutDisp)}
                    /\ LinksTo(mat, <<d, "Height">>) =
                          {Link(Final(LastTagged("DISPLACEMENT")), <<d, "Height">>)}
              /\ mat.displacement_method = "BOTH"
        /\ DispSamplers # {} <=> (props.use_displacement /\ props.displacement_image # 0)
        /\ Cardinality(DispNodes(mat)) =
              (IF Tagged("DISPLACEMENT") # {} THEN 1 ELSE 0) + Cardinality(DispSamplers)

C26_Witness ==
    /\ pc = "done"
    /\ ~props.use_displacement /\ props.displacement_image # 0
    /\ Usage("R") = "DISPLACEMENT"
    /\ DispSamplers = {}
    /\ \E d \in DispNodes(mat) :
          /\ Link(<<d, "Displacement">>, OutDisp) \in mat.links
          /\ Link(Raw("R"), <<d, "Height">>) \in mat.links
    /\ mat.displacement_method = "BOTH"

\* The router has nowhere to put the signal of channel c
Dropped(c) ==
    CASE Usage(c) = "AO" -> props.col_image = 0 \/ ~Has("Base Color")
      [] Usage(c) = "EMISSION" -> ~Has("Emission Strength")
      [] Usage(c) \in DirectUsages -> DirectTarget(Usage(c)) = None
      [] OTHER -> FALSE
InvertNodes(c) == NodesLabelled(mat, <<"Invert", c>>)

\* C27: for a packed channel with invert set and a usage other than None, the
\* invert node exists and is fed by the channel's raw output before the router
\* is called; when the router drops the signal (AO with Base Color unwired, a
\* destination input that the host lacks) the invert node stays in the graph
\* with no outgoing wire and the channel has no wire to the shading model.
C27_DroppedInvertStays ==
    \A c \in ChannelNames :
        (Prepared(c) /\ Inverted(c) /\ Usage(c) # "NONE") =>
            /\ Cardinality(InvertNodes(c)) = 1
            /\ \A i \in InvertNodes(c) :
                  /\ mat.nodes[i].type = "ShaderNodeInvert"
                  /\ LinksTo(mat, <<i, "Color">>) = {Link(Raw(c), <<i, "Color">>)}
                  /\ LinksFrom(mat, Raw(c)) = {Link(Raw(c), <<i, "Color">>)}
                  /\ ~Routed(c) =>
                        /\ loc.final_output = <<i, "Color">>
                        /\ LinksFrom(mat, <<i, "Color">>) = {}
                  /\ (Routed(c) /\ Dropped(c)) =>
                        LinksFrom(mat, <<i, "Color">>) = {}

C27_Witness ==
    /\ pc = "done"
    /\ Usage("G") = "AO" /\ Inverted("G") /\ props.col_image = 0
    /\ LinksTo(mat, BaseColor) = {}
    /\ \E i \in InvertNodes("G") :
          /\ Link(Raw("G"), <<i, "Color">>) \in mat.links
          /\ LinksFrom(mat, <<i, "Color">>) = {}

\* The panel as Clear All leaves it
Cleared ==
    /\ NoImageSet
    /\ props.material_name = ""
    /\ props.preset = "CUSTOM"
    /\ \A c \in ChannelNames : props.channel[c] = Slot("NONE", FALSE)
ClearStep == nOps' = nOps + 1 /\ lastOp' = "clear"

\* C28: whatever image loads, preset selections and channel edits came before,
\* Clear All leaves the five image slots unset, the material name empty, the
\* preset Custom and the four channel slots {None, not inverted}; from then on
\* create_material is refused, and leaves everything as it is, until an image
\* is loaded again (only an image load ends the refusal).
C28_ClearAllResets ==
    [][/\ ClearStep => (Cleared' /\ ~poll(props'))
       /\ NoImageSet =>
             /\ nOps' = nOps =>
                   /\ result' = "poll_failed"
                   /\ UNCHANGED <<props, mat, imgspace, matCount, pc, loc, scene>>
             /\ ~NoImageSet' => lastOp' = "image"]_vars

C28_Witness ==
    /\ lastOp = "clear" /\ nOps >= 3
    /\ Cleared
    /\ result = "poll_failed"
    /\ matCount = 1 /\ scene.objects[1].materials # <<>>

-----------------------------------------------------------------------------
(* Properties of the Batch Renamer *)

\* obj.users_collection, the master collection under its name
Membership(colls, sc, obj) ==
    {c \in DOMAIN colls : obj \in colls[c]}
    \cup (IF obj \in sc.objects THEN {"Scene Collection"} ELSE {})
InScene(obj) == obj \in scene_objects(data_collections, scene_collection)
SortSource ==
    IF batch_rename_settings.sort_scope = "SELECTED"
    THEN {i \in DOMAIN data_objects : data_objects[i].selected /\ InScene(i)}
    ELSE {i \in DOMAIN data_objects : InScene(i)}
TypeEnabled(t) ==
    \E k \in DOMAIN SORT_TYPE_CONFIG :
        SORT_TYPE_CONFIG[k][1] = t /\ batch_rename_settings[SORT_TYPE_CONFIG[k][3]]
SortMoved == {i \in SortSource : TypeEnabled(data_objects[i].type)}
SortTarget(obj) == coll_name_of(data_objects[obj].type)
SortStep ==
    nOps' = nOps + 1 /\ lastOp' = "sort_by_type" /\ report'.status # "poll_failed"

\* C29: when sort-by-type finishes, every source object (the selected objects or
\* all objects of the scene, by the scope) whose type is enabled is in exactly
\* one collection, the one named for its type, which is reused when a collection
\* of that name exists and otherwise created and linked to the scene; every
\* other object keeps its collections; with no type enabled or no object that
\* matches, the operator is cancelled and no collection is created or changed.
C29_SortByType ==
    [][SortStep =>
         IF SortMoved = {}
         THEN /\ report'.status = "CANCELLED"
              /\ UNCHANGED <<data_collections, scene_collection>>
         ELSE LET named == {SortTarget(i) : i \in SortMoved}
                  created == named \ DOMAIN data_collections
              IN  /\ report'.status = "FINISHED"
                  /\ report'.count = Cardinality(SortMoved)
                  /\ \A i \in SortMoved :
                        Membership(data_collections', scene_collection', i) =
                            {SortTarget(i)}
                  /\ \A i \in DOMAIN data_objects \ SortMoved :
                        Membership(data_collections', scene_collection', i) =
                            Membership(data_collections, scene_collection, i)
                  /\ DOMAIN data_collections' = DOMAIN data_collections \cup created
                  /\ scene_collection'.children =
                        scene_collection.children \cup created]_vars

C29_Witness ==
    /\ lastOp = "sort_by_type"
    /\ report.status = "FINISHED" /\ report.count = 1
    /\ "Meshes" \in DOMAIN data_collections \ scene_collection.children
    /\ "Curves" \in scene_collection.children
    /\ \E i, j \in DOMAIN data_objects :
          /\ data_objects[i].type = "MESH" /\ ~data_objects[i].selected
          /\ Membership(data_collections, scene_collection, i) =
                {"Scene Collection", "Props"}
          /\ data_objects[j].type = "CURVE" /\ data_objects[j].selected
          /\ Membership(data_collections, scene_collection, j) = {"Curves"}

\* The name ends in a dot and three digits; the name without them
EndsInSuffix(name) ==
    /\ Len(name) >= 4
    /\ name[Len(name) - 3] = "."
    /\ \A k \in (Len(name) - 2)..Len(name) : IsDigit(name[k])
Stripped(name) == SubSeq(name, 1, Len(name) - 4)
StartNames == {data_objects[i].name : i \in DOMAIN data_objects}
Candidates ==
    {i \in DOMAIN data_objects :
        data_objects[i].selected /\ EndsInSuffix(data_objects[i].name)}
StripStep ==
    nOps' = nOps + 1 /\ lastOp' = "strip_numbers" /\ report'.status = "FINISHED"

\* C30: strip-suffix renames a selected object whose name ends in a dot and three
\* digits to the name without that suffix only if that name was held by no
\* object when the operator started and was given to no object earlier in the
\* run; otherwise the object keeps its name and is counted as skipped.  After
\* the run no two objects share a name, and the objects whose names do not end
\* in such a suffix, or that are not selected, have the names they had.
C30_StripOnlyWhenFree ==
    [][StripStep =>
         /\ \A i \in DOMAIN data_objects :
               LET old == data_objects[i].name
                   new == data_objects'[i].name
               IN  IF i \in Candidates
                   THEN /\ new \in {old, Stripped(old)}
                        /\ new = Stripped(old) => Stripped(old) \notin StartNames
                        /\ new = old =>
                              \/ Stripped(old) \in StartNames
                              \/ \E j \in Candidates \ {i} :
                                    data_objects'[j].name = Stripped(old)
                   ELSE new = old
         /\ \A i, j \in DOMAIN data_objects :
               data_objects'[i].name = data_objects'[j].name => i = j
         /\ report'.skipped =
               Cardinality({i \in Candidates : data_objects'[i].name = data_objects[i].name})
         /\ report'.count + report'.skipped = Cardinality(Candidates)]_vars

====
